---------------------------- MODULE Spec2Model ----------------------------
(***************************************************************************)
(* Model of the i18n checker of klubbspel:                                 *)
(*   scripts/validate_i18n.py          (annotations, dispositions, keys)   *)
(*   scripts/find_hardcoded_strings.py (the basic variant, no annotations) *)
(*                                                                         *)
(* Text is modelled character by character: a string is a sequence of      *)
(* one-character strings, a file is the sequence of its lines (the result  *)
(* of content.split('\n')), and the regular expressions and str methods    *)
(* the scripts use are operators over such sequences.                      *)
(***************************************************************************)
EXTENDS Integers, Sequences, FiniteSets, TLC

\* ------------------------------------------------------------------ text

\* Python: text.startswith(p)
StartsWith(text, p) ==
  Len(p) <= Len(text) /\ SubSeq(text, 1, Len(p)) = p

\* Python: text.endswith(p)
EndsWith(text, p) ==
  Len(p) <= Len(text) /\ SubSeq(text, Len(text) - Len(p) + 1, Len(text)) = p

\* Python: sub in text
Contains(text, sub) ==
  \E i \in 0..(Len(text) - Len(sub)) : SubSeq(text, i + 1, i + Len(sub)) = sub

\* Python: text.startswith(tuple) / text.endswith(tuple)
StartsWithAny(text, ps) == \E p \in ps : StartsWith(text, p)
EndsWithAny(text, ps) == \E p \in ps : EndsWith(text, p)

UpperLetters ==
  << "A", "B", "C", "D", "E", "F", "G", "H", "I", "J", "K", "L", "M",
     "N", "O", "P", "Q", "R", "S", "T", "U", "V", "W", "X", "Y", "Z" >>
LowerLetters ==
  << "a", "b", "c", "d", "e", "f", "g", "h", "i", "j", "k", "l", "m",
     "n", "o", "p", "q", "r", "s", "t", "u", "v", "w", "x", "y", "z" >>
Digits == { "0", "1", "2", "3", "4", "5", "6", "7", "8", "9" }
HexLetters == { "a", "b", "c", "d", "e", "f", "A", "B", "C", "D", "E", "F" }
\* the characters str.strip(), str.split() and the regex class \s treat as space
Whitespace == { " ", "\t", "\n", "\r" }

IsUpper(c) == \E i \in 1..Len(UpperLetters) : UpperLetters[i] = c
IsLower(c) == \E i \in 1..Len(LowerLetters) : LowerLetters[i] = c
IsDigit(c) == c \in Digits
\* the regex class \w
IsWord(c) == IsUpper(c) \/ IsLower(c) \/ IsDigit(c) \/ c = "_"

\* Python: c.lower() for one character
LowerChar(c) ==
  IF IsUpper(c)
    THEN LowerLetters[CHOOSE i \in 1..Len(UpperLetters) : UpperLetters[i] = c]
    ELSE c

\* Python: text.lower()
Lower(text) == [i \in 1..Len(text) |-> LowerChar(text[i])]

\* Python: text.isdigit()
IsDigitString(text) == Len(text) > 0 /\ \A i \in 1..Len(text) : IsDigit(text[i])

\* Python: text.strip() == ''
IsBlank(text) == \A i \in 1..Len(text) : text[i] \in Whitespace

\* Python: text.strip()
RECURSIVE LStrip(_)
LStrip(text) ==
  IF text # <<>> /\ Head(text) \in Whitespace THEN LStrip(Tail(text)) ELSE text
RECURSIVE RStrip(_)
RStrip(text) ==
  IF text # <<>> /\ text[Len(text)] \in Whitespace
    THEN RStrip(SubSeq(text, 1, Len(text) - 1))
    ELSE text
Strip(text) == RStrip(LStrip(text))

\* Python: text.split(), the sequence of maximal runs of non-space characters
RECURSIVE SplitWords(_, _, _)
SplitWords(text, cur, acc) ==
  IF text = <<>>
    THEN IF cur = <<>> THEN acc ELSE Append(acc, cur)
    ELSE IF Head(text) \in Whitespace
      THEN SplitWords(Tail(text), <<>>, IF cur = <<>> THEN acc ELSE Append(acc, cur))
      ELSE SplitWords(Tail(text), Append(cur, Head(text)), acc)
Split(text) == SplitWords(text, <<>>, <<>>)

\* Python: text.split(sep) for a one-character sep (empty fields are kept)
RECURSIVE SplitOn(_, _, _, _)
SplitOn(text, sep, cur, acc) ==
  IF text = <<>>
    THEN Append(acc, cur)
    ELSE IF Head(text) = sep
      THEN SplitOn(Tail(text), sep, <<>>, Append(acc, cur))
      ELSE SplitOn(Tail(text), sep, Append(cur, Head(text)), acc)
SplitChar(text, sep) == SplitOn(text, sep, <<>>, <<>>)

\* Python: old.replace(a, b), left to right, non-overlapping (a is not empty)
RECURSIVE Replace(_, _, _)
Replace(text, a, b) ==
  IF Len(text) < Len(a)
    THEN text
    ELSE IF SubSeq(text, 1, Len(a)) = a
      THEN b \o Replace(SubSeq(text, Len(a) + 1, Len(text)), a, b)
      ELSE <<Head(text)>> \o Replace(Tail(text), a, b)

\* Python: sep.join(parts)
RECURSIVE Join(_, _)
Join(parts, sep) ==
  IF parts = <<>> THEN <<>>
  ELSE IF Len(parts) = 1 THEN parts[1]
  ELSE parts[1] \o sep \o Join(Tail(parts), sep)

\* A regex of the shape ^...$ is tried on the whole text and, because $ also
\* matches just before a final newline, on the text without that newline.
DollarForms(text) ==
  {text} \cup (IF text # <<>> /\ text[Len(text)] = "\n"
                THEN {SubSeq(text, 1, Len(text) - 1)}
                ELSE {})

\* validate_i18n.py:59-63, css_indicators
css_indicators ==
  { <<"-">>, <<":">>, <<"[">>, <<"]">>, <<"(">>, <<")">>, <<"%">>, <<"p", "x">>,
    <<"r", "e", "m">>, <<"e", "m">>, <<"v", "h">>, <<"v", "w">>, <<"f", "l", "e", "x">>,
    <<"g", "r", "i", "d">>, <<"b", "l", "o", "c", "k">>, <<"i", "n", "l", "i", "n", "e">>,
    <<"a", "b", "s", "o", "l", "u", "t", "e">>, <<"r", "e", "l", "a", "t", "i", "v", "e">>,
    <<"f", "i", "x", "e", "d">>, <<"t", "e", "x", "t">>, <<"b", "g">>,
    <<"b", "o", "r", "d", "e", "r">>, <<"r", "o", "u", "n", "d", "e", "d">>,
    <<"s", "h", "a", "d", "o", "w">>, <<"o", "p", "a", "c", "i", "t", "y">>,
    <<"t", "r", "a", "n", "s", "f", "o", "r", "m">> }

\* validate_i18n.py:69-72, bare utility-class words
css_utility_words ==
  { <<"w">>, <<"h">>, <<"p">>, <<"m">>, <<"m", "x">>, <<"m", "y">>, <<"p", "x">>, <<"p", "y">>,
    <<"m", "t">>, <<"m", "b">>, <<"m", "l">>, <<"m", "r">>, <<"p", "t">>, <<"p", "b">>,
    <<"p", "l">>, <<"p", "r">>, <<"t", "o", "p">>, <<"l", "e", "f", "t">>,
    <<"r", "i", "g", "h", "t">>, <<"b", "o", "t", "t", "o", "m">>,
    <<"c", "e", "n", "t", "e", "r">>, <<"j", "u", "s", "t", "i", "f", "y">>,
    <<"i", "t", "e", "m", "s">>, <<"c", "o", "n", "t", "e", "n", "t">>, <<"s", "e", "l", "f">>,
    <<"a", "u", "t", "o">>, <<"h", "i", "d", "d", "e", "n">>, <<"b", "l", "o", "c", "k">>,
    <<"f", "l", "e", "x">>, <<"g", "r", "i", "d">>, <<"s", "p", "a", "c", "e">>,
    <<"g", "a", "p">>, <<"m", "i", "n">>, <<"m", "a", "x">>, <<"f", "u", "l", "l">> }

\* validate_i18n.py:84-99, styling/attribute prefixes
TechnicalPrefixes ==
  { <<"d", "a", "t", "a", "-">>, <<"a", "r", "i", "a", "-">>,
    <<"c", "l", "a", "s", "s", "N", "a", "m", "e">>, <<"c", "l", "a", "s", "s", ":">>,
    <<"i", "d", "-">>, <<"t", "e", "s", "t", "-">>, <<"b", "t", "n", "-">>,
    <<"t", "e", "x", "t", "-">>, <<"b", "g", "-">>, <<"b", "o", "r", "d", "e", "r", "-">>,
    <<"f", "l", "e", "x">>, <<"g", "r", "i", "d">>, <<"w", "-">>, <<"h", "-">>, <<"p", "-">>,
    <<"m", "-">>, <<"s", "p", "a", "c", "e", "-">>, <<"g", "a", "p", "-">>,
    <<"f", "o", "n", "t", "-">>, <<"l", "e", "a", "d", "i", "n", "g", "-">>,
    <<"t", "r", "a", "c", "k", "i", "n", "g", "-">>,
    <<"t", "r", "a", "n", "s", "f", "o", "r", "m">>,
    <<"t", "r", "a", "n", "s", "i", "t", "i", "o", "n">>,
    <<"d", "u", "r", "a", "t", "i", "o", "n", "-">>, <<"e", "a", "s", "e", "-">>,
    <<"s", "c", "a", "l", "e", "-">>, <<"r", "o", "t", "a", "t", "e", "-">>,
    <<"t", "r", "a", "n", "s", "l", "a", "t", "e", "-">>, <<"s", "h", "a", "d", "o", "w", "-">>,
    <<"r", "o", "u", "n", "d", "e", "d", "-">>, <<"o", "v", "e", "r", "f", "l", "o", "w", "-">>,
    <<"z", "-">>, <<"o", "p", "a", "c", "i", "t", "y", "-">>,
    <<"c", "u", "r", "s", "o", "r", "-">>, <<"s", "e", "l", "e", "c", "t", "-">>,
    <<"p", "o", "i", "n", "t", "e", "r", "-">>, <<"r", "e", "s", "i", "z", "e", "-">>,
    <<"o", "u", "t", "l", "i", "n", "e", "-">>, <<"r", "i", "n", "g", "-">>,
    <<"d", "i", "v", "i", "d", "e", "-">>, <<"g", "r", "o", "u", "p">>, <<"p", "e", "e", "r">>,
    <<"a", "n", "i", "m", "a", "t", "e", "-">>, <<"s", "r", "-">>,
    <<"n", "o", "t", "-", "s", "r", "-">>, <<"f", "o", "c", "u", "s", ":">>,
    <<"h", "o", "v", "e", "r", ":">>, <<"a", "c", "t", "i", "v", "e", ":">>,
    <<"d", "i", "s", "a", "b", "l", "e", "d", ":">>, <<"c", "h", "e", "c", "k", "e", "d", ":">>,
    <<"i", "n", "v", "a", "l", "i", "d", ":">>, <<"v", "a", "l", "i", "d", ":">>,
    <<"h", "i", "d", "d", "e", "n">>, <<"a", "b", "s", "o", "l", "u", "t", "e">>,
    <<"r", "e", "l", "a", "t", "i", "v", "e">>, <<"f", "i", "x", "e", "d">>,
    <<"s", "t", "i", "c", "k", "y">>, <<"s", "t", "a", "t", "i", "c">>,
    <<"i", "n", "s", "e", "t", "-">>, <<"t", "o", "p", "-">>, <<"r", "i", "g", "h", "t", "-">>,
    <<"b", "o", "t", "t", "o", "m", "-">>, <<"l", "e", "f", "t", "-">>, <<"m", "i", "n", "-">>,
    <<"m", "a", "x", "-">>, <<"s", "i", "z", "e", "-">>, <<"a", "s", "p", "e", "c", "t", "-">>,
    <<"c", "o", "l", "-">>, <<"r", "o", "w", "-">>, <<"p", "l", "a", "c", "e", "-">>,
    <<"j", "u", "s", "t", "i", "f", "y", "-">>, <<"i", "t", "e", "m", "s", "-">>,
    <<"c", "o", "n", "t", "e", "n", "t", "-">>, <<"s", "e", "l", "f", "-">>,
    <<"o", "r", "d", "e", "r", "-">>, <<"b", "a", "s", "i", "s", "-">>, <<"g", "r", "o", "w">>,
    <<"s", "h", "r", "i", "n", "k">>, <<"f", "i", "l", "l", "-">>,
    <<"s", "t", "r", "o", "k", "e", "-">>, <<"a", "f", "t", "e", "r", ":">>,
    <<"b", "e", "f", "o", "r", "e", ":">>, <<"f", "i", "r", "s", "t", ":">>,
    <<"l", "a", "s", "t", ":">>, <<"o", "d", "d", ":">>, <<"e", "v", "e", "n", ":">>,
    <<"e", "m", "p", "t", "y", ":">>, <<"m", "d", ":">>, <<"l", "g", ":">>, <<"x", "l", ":">>,
    <<"s", "m", ":">>, <<"x", "s", ":">>, <<"2", "x", "l", ":">>, <<"d", "a", "r", "k", ":">>,
    <<"l", "i", "g", "h", "t", ":">>, <<"m", "x", "-">>, <<"m", "y", "-">>, <<"m", "t", "-">>,
    <<"m", "b", "-">>, <<"m", "l", "-">>, <<"m", "r", "-">>, <<"p", "x", "-">>,
    <<"p", "y", "-">>, <<"p", "t", "-">>, <<"p", "b", "-">>, <<"p", "l", "-">>,
    <<"p", "r", "-">>, <<"i", "n", "l", "i", "n", "e", "-">>, <<"b", "l", "o", "c", "k">>,
    <<"t", "a", "b", "l", "e">>, <<"f", "l", "o", "w", "-">> }

\* validate_i18n.py:102, URL/protocol prefixes
UrlPrefixes ==
  { <<"h", "t", "t", "p">>, <<"w", "w", "w">>, <<"m", "a", "i", "l", "t", "o", ":">>,
    <<"t", "e", "l", ":">>, <<"f", "t", "p", ":">>, <<".", "/">> }

\* validate_i18n.py:105-106, file extensions
FileExtensions ==
  { <<"t", "s", "x">>, <<"t", "s">>, <<"j", "s">>, <<"c", "s", "s">>, <<"p", "n", "g">>,
    <<"j", "p", "g">>, <<"s", "v", "g">>, <<"j", "s", "o", "n">>, <<"h", "t", "m", "l">>,
    <<"x", "m", "l">>, <<"m", "d">>, <<"t", "x", "t">>, <<"p", "d", "f">>, <<"d", "o", "c">>,
    <<"x", "l", "s", "x">> }

\* validate_i18n.py:112-117, technical terms (compared with text.lower())
TechnicalTerms ==
  { <<"d", "i", "v">>, <<"s", "p", "a", "n">>, <<"b", "u", "t", "t", "o", "n">>,
    <<"i", "n", "p", "u", "t">>, <<"f", "o", "r", "m">>, <<"i", "m", "g">>, <<"s", "v", "g">>,
    <<"p", "a", "t", "h">>, <<"g">>, <<"r", "e", "c", "t">>, <<"c", "i", "r", "c", "l", "e">>,
    <<"t", "r", "u", "e">>, <<"f", "a", "l", "s", "e">>, <<"n", "u", "l", "l">>,
    <<"u", "n", "d", "e", "f", "i", "n", "e", "d">>, <<"p", "x">>, <<"r", "e", "m">>,
    <<"e", "m">>, <<"v", "h">>, <<"v", "w">>, <<"a", "u", "t", "o">>, <<"n", "o", "n", "e">>,
    <<"b", "l", "o", "c", "k">>, <<"i", "n", "l", "i", "n", "e">>, <<"f", "l", "e", "x">>,
    <<"g", "r", "i", "d">>, <<"a", "b", "s", "o", "l", "u", "t", "e">>,
    <<"r", "e", "l", "a", "t", "i", "v", "e">>, <<"f", "i", "x", "e", "d">>,
    <<"s", "t", "i", "c", "k", "y">>, <<"l", "e", "f", "t">>, <<"r", "i", "g", "h", "t">>,
    <<"t", "o", "p">>, <<"b", "o", "t", "t", "o", "m">>, <<"c", "e", "n", "t", "e", "r">>,
    <<"s", "t", "a", "r", "t">>, <<"e", "n", "d">>, <<"w", "r", "a", "p">>,
    <<"n", "o", "w", "r", "a", "p">>, <<"u", "s", "e", " ", "c", "l", "i", "e", "n", "t">>,
    <<"A", "r", "r", "o", "w", "L", "e", "f", "t">>,
    <<"A", "r", "r", "o", "w", "R", "i", "g", "h", "t">>, <<"B", "o", "l", "d">> }

\* validate_i18n.py:119, CSS unit suffixes
CssUnitSuffixes ==
  { <<"p", "x">>, <<"r", "e", "m">>, <<"e", "m">>, <<"%">>, <<"v", "h">>, <<"v", "w">>,
    <<"d", "e", "g">>, <<"m", "s">>, <<"s">> }

\* validate_i18n.py:130-137, protocol/status tokens
NonUiStrings ==
  { <<"G", "E", "T">>, <<"P", "O", "S", "T">>, <<"P", "U", "T">>,
    <<"D", "E", "L", "E", "T", "E">>, <<"P", "A", "T", "C", "H">>, <<"H", "E", "A", "D">>,
    <<"O", "P", "T", "I", "O", "N", "S">>,
    <<"a", "p", "p", "l", "i", "c", "a", "t", "i", "o", "n", "/", "j", "s", "o", "n">>,
    <<"t", "e", "x", "t", "/", "p", "l", "a", "i", "n">>,
    <<"t", "e", "x", "t", "/", "h", "t", "m", "l">>,
    <<"i", "m", "a", "g", "e", "/", "p", "n", "g">>, <<"B", "e", "a", "r", "e", "r">>,
    <<"B", "a", "s", "i", "c">>, <<"C", "o", "n", "t", "e", "n", "t", "-", "T", "y", "p", "e">>,
    <<"A", "u", "t", "h", "o", "r", "i", "z", "a", "t", "i", "o", "n">>,
    <<"A", "c", "c", "e", "p", "t">>,
    <<"A", "c", "c", "e", "p", "t", "-", "L", "a", "n", "g", "u", "a", "g", "e">>,
    <<"O", "r", "i", "g", "i", "n">>, <<"s", "u", "c", "c", "e", "s", "s">>,
    <<"e", "r", "r", "o", "r">>, <<"w", "a", "r", "n", "i", "n", "g">>, <<"i", "n", "f", "o">>,
    <<"d", "e", "b", "u", "g">>, <<"c", "r", "e", "a", "t", "e", "d">>,
    <<"u", "p", "d", "a", "t", "e", "d">>, <<"d", "e", "l", "e", "t", "e", "d">>,
    <<"A", "b", "o", "r", "t", "E", "r", "r", "o", "r">>,
    <<"N", "E", "T", "W", "O", "R", "K", "_", "E", "R", "R", "O", "R">>,
    <<"M", "E", "M", "B", "E", "R", "S", "H", "I", "P", "_", "R", "O", "L", "E", "_", "M", "E", "M", "B", "E", "R">>,
    <<"M", "E", "M", "B", "E", "R", "S", "H", "I", "P", "_", "R", "O", "L", "E", "_", "A", "D", "M", "I", "N">>,
    <<"S", "E", "R", "I", "E", "S", "_", "V", "I", "S", "I", "B", "I", "L", "I", "T", "Y", "_", "O", "P", "E", "N">>,
    <<"S", "E", "R", "I", "E", "S", "_", "V", "I", "S", "I", "B", "I", "L", "I", "T", "Y", "_", "C", "L", "U", "B", "_", "O", "N", "L", "Y">>,
    <<"C", "L", "U", "B", "_", "A", "D", "M", "I", "N", "_", "O", "R", "_", "P", "L", "A", "T", "F", "O", "R", "M", "_", "O", "W", "N", "E", "R", "_", "R", "E", "Q", "U", "I", "R", "E", "D">>,
    <<"C", "L", "U", "B", "_", "I", "D", "_", "R", "E", "Q", "U", "I", "R", "E", "D", "_", "F", "O", "R", "_", "N", "O", "N", "_", "P", "L", "A", "T", "F", "O", "R", "M", "_", "O", "W", "N", "E", "R", "S">>,
    <<"L", "O", "G", "I", "N", "_", "R", "E", "Q", "U", "I", "R", "E", "D">> }

\* validate_i18n.py:155-161, common words
CommonWords ==
  { <<"e", "r", "r", "o", "r">>, <<"f", "a", "i", "l", "e", "d">>,
    <<"s", "u", "c", "c", "e", "s", "s">>, <<"l", "o", "a", "d", "i", "n", "g">>,
    <<"p", "l", "e", "a", "s", "e">>, <<"w", "e", "l", "c", "o", "m", "e">>,
    <<"i", "n", "v", "a", "l", "i", "d">>, <<"r", "e", "q", "u", "i", "r", "e", "d">>,
    <<"c", "r", "e", "a", "t", "e">>, <<"u", "p", "d", "a", "t", "e">>,
    <<"d", "e", "l", "e", "t", "e">>, <<"s", "a", "v", "e">>, <<"c", "a", "n", "c", "e", "l">>,
    <<"c", "o", "n", "f", "i", "r", "m">>, <<"l", "o", "g", "i", "n">>,
    <<"l", "o", "g", "o", "u", "t">>, <<"s", "i", "g", "n">>, <<"e", "m", "a", "i", "l">>,
    <<"p", "a", "s", "s", "w", "o", "r", "d">>, <<"n", "a", "m", "e">>, <<"u", "s", "e", "r">>,
    <<"a", "d", "m", "i", "n">>, <<"m", "e", "m", "b", "e", "r">>, <<"c", "l", "u", "b">>,
    <<"p", "l", "a", "y", "e", "r">>, <<"m", "a", "t", "c", "h">>,
    <<"s", "e", "r", "i", "e", "s">>, <<"t", "o", "u", "r", "n", "a", "m", "e", "n", "t">>,
    <<"l", "e", "a", "g", "u", "e">>, <<"s", "c", "o", "r", "e">>, <<"w", "i", "n">>,
    <<"l", "o", "s", "e">>, <<"a", "c", "t", "i", "v", "e">>,
    <<"i", "n", "a", "c", "t", "i", "v", "e">>, <<"m", "e", "r", "g", "e">>,
    <<"r", "e", "m", "o", "v", "e">>, <<"p", "r", "o", "m", "o", "t", "e">>,
    <<"d", "e", "m", "o", "t", "e">>, <<"i", "n", "v", "i", "t", "e">> }

\* validate_i18n.py:163, sentence punctuation
SentencePunctuation ==
  { <<".">>, <<"!">>, <<"?">>, <<":">>, <<";">>, <<",">> }

\* validate_i18n.py:165, sentence endings
SentenceEndings ==
  { <<".", ".", ".">>, <<":">>, <<"!">>, <<"?">> }

\* validate_i18n.py:227, prefixes of skipped lines
SkipPrefixes ==
  { <<"i", "m", "p", "o", "r", "t", " ">>, <<"e", "x", "p", "o", "r", "t", " ">>, <<"/", "/">>,
    <<"/", "*">>, <<"*", "/">>, <<"<", "!", "-", "-">> }

\* find_hardcoded_strings.py:57-62
FH_TechnicalPrefixes ==
  { <<"d", "a", "t", "a", "-">>, <<"a", "r", "i", "a", "-">>,
    <<"c", "l", "a", "s", "s", "N", "a", "m", "e">>, <<"c", "l", "a", "s", "s", ":">>,
    <<"i", "d", "-">>, <<"t", "e", "s", "t", "-">>, <<"b", "t", "n", "-">>,
    <<"t", "e", "x", "t", "-">>, <<"b", "g", "-">>, <<"b", "o", "r", "d", "e", "r", "-">>,
    <<"f", "l", "e", "x">>, <<"g", "r", "i", "d">>, <<"w", "-">>, <<"h", "-">>, <<"p", "-">>,
    <<"m", "-">>, <<"s", "p", "a", "c", "e", "-">>, <<"g", "a", "p", "-">>,
    <<"f", "o", "n", "t", "-">>, <<"l", "e", "a", "d", "i", "n", "g", "-">>,
    <<"t", "r", "a", "c", "k", "i", "n", "g", "-">>,
    <<"t", "r", "a", "n", "s", "f", "o", "r", "m">>,
    <<"t", "r", "a", "n", "s", "i", "t", "i", "o", "n">>,
    <<"d", "u", "r", "a", "t", "i", "o", "n", "-">>, <<"e", "a", "s", "e", "-">>,
    <<"s", "c", "a", "l", "e", "-">>, <<"r", "o", "t", "a", "t", "e", "-">>,
    <<"t", "r", "a", "n", "s", "l", "a", "t", "e", "-">>, <<"s", "h", "a", "d", "o", "w", "-">>,
    <<"r", "o", "u", "n", "d", "e", "d", "-">>, <<"o", "v", "e", "r", "f", "l", "o", "w", "-">>,
    <<"z", "-">>, <<"o", "p", "a", "c", "i", "t", "y", "-">>,
    <<"c", "u", "r", "s", "o", "r", "-">>, <<"s", "e", "l", "e", "c", "t", "-">>,
    <<"p", "o", "i", "n", "t", "e", "r", "-">>, <<"r", "e", "s", "i", "z", "e", "-">>,
    <<"o", "u", "t", "l", "i", "n", "e", "-">>, <<"r", "i", "n", "g", "-">>,
    <<"d", "i", "v", "i", "d", "e", "-">> }

\* find_hardcoded_strings.py:75-79
FH_TechnicalTerms ==
  { <<"d", "i", "v">>, <<"s", "p", "a", "n">>, <<"b", "u", "t", "t", "o", "n">>,
    <<"i", "n", "p", "u", "t">>, <<"f", "o", "r", "m">>, <<"i", "m", "g">>, <<"s", "v", "g">>,
    <<"p", "a", "t", "h">>, <<"g">>, <<"r", "e", "c", "t">>, <<"c", "i", "r", "c", "l", "e">>,
    <<"t", "r", "u", "e">>, <<"f", "a", "l", "s", "e">>, <<"n", "u", "l", "l">>,
    <<"u", "n", "d", "e", "f", "i", "n", "e", "d">>, <<"p", "x">>, <<"r", "e", "m">>,
    <<"e", "m">>, <<"v", "h">>, <<"v", "w">>, <<"a", "u", "t", "o">>, <<"n", "o", "n", "e">>,
    <<"b", "l", "o", "c", "k">>, <<"i", "n", "l", "i", "n", "e">>, <<"f", "l", "e", "x">>,
    <<"g", "r", "i", "d">>, <<"a", "b", "s", "o", "l", "u", "t", "e">>,
    <<"r", "e", "l", "a", "t", "i", "v", "e">>, <<"f", "i", "x", "e", "d">>,
    <<"s", "t", "i", "c", "k", "y">>, <<"l", "e", "f", "t">>, <<"r", "i", "g", "h", "t">>,
    <<"t", "o", "p">>, <<"b", "o", "t", "t", "o", "m">>, <<"c", "e", "n", "t", "e", "r">>,
    <<"s", "t", "a", "r", "t">>, <<"e", "n", "d">>, <<"w", "r", "a", "p">>,
    <<"n", "o", "w", "r", "a", "p">> }

\* find_hardcoded_strings.py:92-96
FH_NonUiStrings ==
  { <<"G", "E", "T">>, <<"P", "O", "S", "T">>, <<"P", "U", "T">>,
    <<"D", "E", "L", "E", "T", "E">>, <<"P", "A", "T", "C", "H">>, <<"H", "E", "A", "D">>,
    <<"O", "P", "T", "I", "O", "N", "S">>,
    <<"a", "p", "p", "l", "i", "c", "a", "t", "i", "o", "n", "/", "j", "s", "o", "n">>,
    <<"t", "e", "x", "t", "/", "p", "l", "a", "i", "n">>,
    <<"t", "e", "x", "t", "/", "h", "t", "m", "l">>,
    <<"i", "m", "a", "g", "e", "/", "p", "n", "g">>, <<"B", "e", "a", "r", "e", "r">>,
    <<"B", "a", "s", "i", "c">>, <<"C", "o", "n", "t", "e", "n", "t", "-", "T", "y", "p", "e">>,
    <<"A", "u", "t", "h", "o", "r", "i", "z", "a", "t", "i", "o", "n">>,
    <<"s", "u", "c", "c", "e", "s", "s">>, <<"e", "r", "r", "o", "r">>,
    <<"w", "a", "r", "n", "i", "n", "g">>, <<"i", "n", "f", "o">>, <<"d", "e", "b", "u", "g">>,
    <<"c", "r", "e", "a", "t", "e", "d">>, <<"u", "p", "d", "a", "t", "e", "d">>,
    <<"d", "e", "l", "e", "t", "e", "d">> }

\* find_hardcoded_strings.py:107-115
FH_CommonWords ==
  { <<"t", "h", "e">>, <<"a", "n", "d">>, <<"o", "r">>, <<"t", "o">>, <<"f", "o", "r">>,
    <<"w", "i", "t", "h">>, <<"y", "o", "u">>, <<"y", "o", "u", "r">>, <<"t", "h", "i", "s">>,
    <<"t", "h", "a", "t">>, <<"a", "r", "e">>, <<"i", "s">>, <<"w", "a", "s">>,
    <<"w", "i", "l", "l">>, <<"c", "a", "n">>, <<"h", "a", "v", "e">>, <<"h", "a", "s">>,
    <<"p", "l", "e", "a", "s", "e">>, <<"e", "r", "r", "o", "r">>,
    <<"s", "u", "c", "c", "e", "s", "s">>, <<"f", "a", "i", "l", "e", "d">>,
    <<"l", "o", "a", "d", "i", "n", "g">>, <<"c", "r", "e", "a", "t", "e">>,
    <<"u", "p", "d", "a", "t", "e">>, <<"d", "e", "l", "e", "t", "e">>, <<"s", "a", "v", "e">>,
    <<"c", "a", "n", "c", "e", "l">>, <<"s", "u", "b", "m", "i", "t">>,
    <<"c", "o", "n", "f", "i", "r", "m">>, <<"w", "e", "l", "c", "o", "m", "e">>,
    <<"l", "o", "g", "i", "n">>, <<"l", "o", "g", "o", "u", "t">>, <<"s", "i", "g", "n">>,
    <<"e", "m", "a", "i", "l">>, <<"p", "a", "s", "s", "w", "o", "r", "d">>,
    <<"n", "a", "m", "e">>, <<"u", "s", "e", "r">>, <<"a", "d", "m", "i", "n">>,
    <<"m", "e", "m", "b", "e", "r">>, <<"c", "l", "u", "b">>, <<"p", "l", "a", "y", "e", "r">>,
    <<"m", "a", "t", "c", "h">>, <<"s", "e", "r", "i", "e", "s">>,
    <<"t", "o", "u", "r", "n", "a", "m", "e", "n", "t">>, <<"l", "e", "a", "g", "u", "e">>,
    <<"s", "c", "o", "r", "e">>, <<"w", "i", "n">>, <<"l", "o", "s", "e">>,
    <<"a", "c", "t", "i", "v", "e">>, <<"i", "n", "a", "c", "t", "i", "v", "e">>,
    <<"r", "e", "q", "u", "i", "r", "e", "d">>, <<"o", "p", "t", "i", "o", "n", "a", "l">>,
    <<"i", "n", "v", "a", "l", "i", "d">>, <<"v", "a", "l", "i", "d">> }

\* ------------------------------------------------------------ classifier

\* validate_i18n.py:48-76
_is_css_class_string(text) ==
  IF text = <<>> \/ Len(text) < 3
    THEN FALSE
    ELSE LET classes == Split(text)
             LooksCss(cls) ==
               \/ \E ind \in css_indicators : Contains(Lower(cls), ind)
               \/ Lower(cls) \in css_utility_words
             css_class_count == Cardinality({i \in 1..Len(classes) : LooksCss(classes[i])})
         IN  IF Len(classes) < 2
               THEN FALSE
               \* css_class_count >= len(classes) * 0.7
               ELSE 10 * css_class_count >= 7 * Len(classes)

\* re.match(r'^#[0-9a-fA-F]{3,6}$', text)
IsHexColor(text) ==
  \E u \in DollarForms(text) :
    /\ Len(u) \in 4..7
    /\ u[1] = "#"
    /\ \A i \in 2..Len(u) : IsDigit(u[i]) \/ u[i] \in HexLetters

\* re.match(r'^[a-z][a-zA-Z0-9]*$', text)
IsCamelCase(text) ==
  \E u \in DollarForms(text) :
    /\ Len(u) >= 1
    /\ IsLower(u[1])
    /\ \A i \in 2..Len(u) : IsLower(u[i]) \/ IsUpper(u[i]) \/ IsDigit(u[i])

\* re.match(r'^[a-z][a-z0-9_]*$', text)
IsSnakeCase(text) ==
  \E u \in DollarForms(text) :
    /\ Len(u) >= 1
    /\ IsLower(u[1])
    /\ \A i \in 2..Len(u) : IsLower(u[i]) \/ IsDigit(u[i]) \/ u[i] = "_"

\* re.match(r'^[a-z][a-z0-9-]*$', text)
IsKebabCase(text) ==
  \E u \in DollarForms(text) :
    /\ Len(u) >= 1
    /\ IsLower(u[1])
    /\ \A i \in 2..Len(u) : IsLower(u[i]) \/ IsDigit(u[i]) \/ u[i] = "-"

\* the character class of r'^[\w\-:[\]()>&+~*.,#%\s]+$'
SelectorChars ==
  { "-", ":", "[", "]", "(", ")", ">", "&", "+", "~", "*", ".", ",", "#", "%" }
\* validate_i18n.py:140-141
SelectorMarks ==
  { <<"[", "&">>, <<":", ":">>, <<"-", ">">>, <<"c", "a", "l", "c", "(">>,
    <<"v", "a", "r", "(">>, <<"m", "i", "n", "-">>, <<"m", "a", "x", "-">> }

\* re.match(r'^[\w\-:[\]()>&+~*.,#%\s]+$', text) and ('[&' in text or ...)
IsCssSelector(text) ==
  /\ Len(text) >= 1
  /\ \A i \in 1..Len(text) :
       IsWord(text[i]) \/ text[i] \in SelectorChars \/ text[i] \in Whitespace
  /\ \E m \in SelectorMarks : Contains(text, m)

\* The stage-1 rules of validate_i18n.py:82-145, one operator per disjunct.
ExclPrefix(text) == StartsWithAny(text, TechnicalPrefixes)
ExclPath(text) == Contains(text, <<"/">>) /\ ~Contains(text, <<" ">>)
ExclUrl(text) == StartsWithAny(text, UrlPrefixes)
ExclFileName(text) ==
  /\ Contains(text, <<".">>)
  /\ Len(SplitChar(text, ".")) = 2
  /\ SplitChar(text, ".")[2] \in FileExtensions
ExclEmail(text) == Contains(text, <<"@">>) /\ Contains(text, <<".">>)
ExclShort(text) == Len(text) < 3
ExclTerm(text) == Lower(text) \in TechnicalTerms
ExclUnit(text) == EndsWithAny(text, CssUnitSuffixes)
ExclNumber(text) == IsDigitString(text) \/ Len(text) = 1
ExclIdentifier(text) == IsCamelCase(text) \/ IsSnakeCase(text) \/ IsKebabCase(text)
ExclToken(text) == text \in NonUiStrings

\* an exclusion test without the rule on texts shorter than three characters
Excluded_without_length_rule(text) ==
  \/ ExclPrefix(text)
  \/ ExclPath(text)
  \/ ExclUrl(text)
  \/ ExclFileName(text)
  \/ ExclEmail(text)
  \/ ExclTerm(text)
  \/ ExclUnit(text)
  \/ IsHexColor(text)
  \/ ExclNumber(text)
  \/ IsBlank(text)
  \/ ExclIdentifier(text)
  \/ ExclToken(text)
  \/ IsCssSelector(text)
  \/ _is_css_class_string(text)

\* validate_i18n.py:82-145: the condition of the first if
Excluded(text) ==
  \/ ExclPrefix(text)
  \/ ExclPath(text)
  \/ ExclUrl(text)
  \/ ExclFileName(text)
  \/ ExclEmail(text)
  \/ ExclShort(text)
  \/ ExclTerm(text)
  \/ ExclUnit(text)
  \/ IsHexColor(text)
  \/ ExclNumber(text)
  \/ IsBlank(text)
  \/ ExclIdentifier(text)
  \/ ExclToken(text)
  \/ IsCssSelector(text)
  \/ _is_css_class_string(text)

\* The stage-2 rules of validate_i18n.py:149-168. text[0] is read only here.
InclSpace(text) == Contains(text, <<" ">>)
InclCapital(text) == IsUpper(text[1]) /\ Len(text) > 4
InclWord(text) == \E w \in CommonWords : Contains(Lower(text), w)
InclPunctuation(text) == \E c \in SentencePunctuation : Contains(text, c)
InclEnding(text) == EndsWithAny(text, SentenceEndings)
InclLabel(text) == Len(text) > 3 /\ Len(text) < 50 /\ IsUpper(text[1])

\* validate_i18n.py:151-153: the returned expression evaluates text[0] unless
\* its first operand, ' ' in text, has decided the result already
ReadsFirstChar(text) == ~InclSpace(text)

\* validate_i18n.py:149-168: the returned expression
Included(text) ==
  \/ InclSpace(text)
  \/ InclCapital(text)
  \/ InclWord(text)
  \/ InclPunctuation(text)
  \/ InclEnding(text)
  \/ InclLabel(text)

\* a classifier that lets an inclusion rule overrule the exclusion rules
is_likely_user_facing_text_inclusion_first(text) ==
  IF text # <<>> /\ Included(text) THEN TRUE ELSE FALSE

\* validate_i18n.py:78-168
is_likely_user_facing_text(text) ==
  IF Excluded(text) THEN FALSE ELSE Included(text)

\* find_hardcoded_strings.py:55-97: the condition of the first if
FH_Excluded(text) ==
  \/ StartsWithAny(text, FH_TechnicalPrefixes)
  \/ ExclPath(text)
  \/ ExclUrl(text)
  \/ ExclFileName(text)
  \/ ExclEmail(text)
  \/ ExclShort(text)
  \/ Lower(text) \in FH_TechnicalTerms
  \/ ExclUnit(text)
  \/ IsHexColor(text)
  \/ ExclNumber(text)
  \/ IsBlank(text)
  \/ ExclIdentifier(text)
  \/ text \in FH_NonUiStrings

\* find_hardcoded_strings.py:101-122: the returned expression
FH_Included(text) ==
  \/ InclSpace(text)
  \/ InclCapital(text)
  \/ \E w \in FH_CommonWords : Contains(Lower(text), w)
  \/ InclPunctuation(text)
  \/ InclEnding(text)
  \/ InclLabel(text)

\* find_hardcoded_strings.py:51-122
FH_is_likely_user_facing_text(text) ==
  IF FH_Excluded(text) THEN FALSE ELSE FH_Included(text)

\* ----------------------------------------------------- annotation parser

\* the marker texts of validate_i18n.py:182-193
FileMarkers == { <<"/", "/", " ", "i", "1", "8", "n", "-", "i", "g", "n", "o", "r", "e", "-", "f", "i", "l", "e">>, <<"/", "*", " ", "i", "1", "8", "n", "-", "i", "g", "n", "o", "r", "e", "-", "f", "i", "l", "e">> }
InlineMarkers == { <<"/", "/", " ", "i", "1", "8", "n", "-", "i", "g", "n", "o", "r", "e">>, <<"/", "*", " ", "i", "1", "8", "n", "-", "i", "g", "n", "o", "r", "e">> }
BlockStartMarkers == { <<"/", "*", " ", "i", "1", "8", "n", "-", "i", "g", "n", "o", "r", "e", "-", "b", "l", "o", "c", "k", " ", "*", "/">>, <<"/", "/", " ", "i", "1", "8", "n", "-", "i", "g", "n", "o", "r", "e", "-", "b", "l", "o", "c", "k">> }
BlockEndMarkers == { <<"/", "*", " ", "i", "1", "8", "n", "-", "i", "g", "n", "o", "r", "e", "-", "b", "l", "o", "c", "k", "-", "e", "n", "d", " ", "*", "/">>, <<"/", "/", " ", "i", "1", "8", "n", "-", "i", "g", "n", "o", "r", "e", "-", "b", "l", "o", "c", "k", "-", "e", "n", "d">> }

ContainsAny(line, markers) == \E m \in markers : Contains(line, m)

\* block_start = None
None == 0

\* validate_i18n.py:173-178: the locals before the loop
ParseStart ==
  [ ignored_lines |-> {}, ignored_blocks |-> {}, ignore_entire_file |-> FALSE,
    in_ignore_block |-> FALSE, block_start |-> None ]

\* validate_i18n.py:181-183
FileIgnoreStep(st, line) ==
  IF ContainsAny(line, FileMarkers)
    THEN [st EXCEPT !.ignore_entire_file = TRUE]
    ELSE st

\* validate_i18n.py:185-187
InlineIgnoreStep(st, num, line) ==
  IF ContainsAny(line, InlineMarkers)
    THEN [st EXCEPT !.ignored_lines = @ \cup {num}]
    ELSE st

\* validate_i18n.py:189-197: the if / elif on the block markers
BlockStep(st, num, line) ==
  IF ContainsAny(line, BlockStartMarkers)
    THEN [st EXCEPT !.in_ignore_block = TRUE, !.block_start = num]
    ELSE IF ContainsAny(line, BlockEndMarkers)
      THEN [st EXCEPT
              !.ignored_blocks =
                 IF st.in_ignore_block /\ st.block_start # None
                   THEN @ \cup {<<st.block_start, num>>}
                   ELSE @,
              !.in_ignore_block = FALSE,
              !.block_start = None]
      ELSE st

\* validate_i18n.py:180-197: one iteration of the loop, on line number num
ParseLine(st, num, line) ==
  BlockStep(InlineIgnoreStep(FileIgnoreStep(st, line), num, line), num, line)

RECURSIVE ParseFrom(_, _, _)
ParseFrom(st, num, lines) ==
  IF num > Len(lines) THEN st ELSE ParseFrom(ParseLine(st, num, lines[num]), num + 1, lines)

\* validate_i18n.py:170-199, on content.split('\n')
parse_ignore_comments(lines) == ParseFrom(ParseStart, 1, lines)

\* validate_i18n.py:201-210
is_line_ignored(num, lines_ignored, blocks_ignored) ==
  IF num \in lines_ignored
    THEN TRUE
    ELSE \E b \in blocks_ignored : b[1] <= num /\ num <= b[2]

\* ------------------------------------------------------ literal extractor

\* The body of a quoted run, r"([^q\\]*(\\.[^q\\]*)*)q" from position i on:
\* the position of the closing quote, or 0 when the line ends first.
RECURSIVE ScanQuoted(_, _, _)
ScanQuoted(line, i, q) ==
  IF i > Len(line) THEN 0
  ELSE IF line[i] = q THEN i
  ELSE IF line[i] = "\\"
    THEN IF i + 1 <= Len(line) THEN ScanQuoted(line, i + 2, q) ELSE 0
    ELSE ScanQuoted(line, i + 1, q)

\* re.finditer of one quote pattern: the (open, close) positions of the
\* matches, leftmost first, each search resuming after the previous match.
RECURSIVE FindQuoted(_, _, _)
FindQuoted(line, from, q) ==
  IF from > Len(line) THEN <<>>
  ELSE IF line[from] = q /\ ScanQuoted(line, from + 1, q) # 0
    THEN <<<<from, ScanQuoted(line, from + 1, q)>>>>
           \o FindQuoted(line, ScanQuoted(line, from + 1, q) + 1, q)
    ELSE FindQuoted(line, from + 1, q)

\* validate_i18n.py:242
Unescape(text) ==
  Replace(Replace(Replace(Replace(text, <<"\\", "\"">>, <<"\"">>),
                          <<"\\", "'">>, <<"'">>),
                  <<"\\", "n">>, <<"\n">>),
          <<"\\", "t">>, <<"\t">>)

\* validate_i18n.py:232-235: the patterns, in the order of the list
QuoteChars == << "'", "\"" >>

\* validate_i18n.py:237-242: the texts matched on one line, pattern by pattern
LineLiterals(line) ==
  LET Of(q) == LET ms == FindQuoted(line, 1, q)
               IN  [k \in 1..Len(ms) |-> Unescape(SubSeq(line, ms[k][1] + 1, ms[k][2] - 1))]
  IN  Of(QuoteChars[1]) \o Of(QuoteChars[2])

\* a skip test on the line as it stands, leading spaces included
IsSkippedLine_unstripped(line) ==
  \/ StartsWithAny(line, SkipPrefixes)
  \/ Contains(line, <<"e", "s", "l", "i", "n", "t", "-", "d", "i", "s", "a", "b", "l", "e">>)

\* validate_i18n.py:227-228
IsSkippedLine(line) ==
  \/ StartsWithAny(Strip(line), SkipPrefixes)
  \/ Contains(line, <<"e", "s", "l", "i", "n", "t", "-", "d", "i", "s", "a", "b", "l", "e">>)

\* validate_i18n.py:237-247: the entries one line contributes
LineEntries(line, num, st) ==
  LET texts == SelectSeq(LineLiterals(line), is_likely_user_facing_text)
      is_ignored == is_line_ignored(num, st.ignored_lines, st.ignored_blocks)
  IN  [k \in 1..Len(texts) |-> <<texts[k], num, is_ignored>>]

RECURSIVE ExtractFrom(_, _, _)
\* validate_i18n.py:225-247: the loop over the lines, from line number num on
ExtractFrom(lines, num, st) ==
  IF num > Len(lines) THEN <<>>
  ELSE (IF IsSkippedLine(lines[num]) THEN <<>> ELSE LineEntries(lines[num], num, st))
         \o ExtractFrom(lines, num + 1, st)

\* an extractor without the early return for a file-ignore marker
extract_hardcoded_strings_without_file_ignore(lines) ==
  ExtractFrom(lines, 1, parse_ignore_comments(lines))

\* an extractor that flags every string of a file with a file-ignore marker
\* as ignored instead of returning the empty list
extract_hardcoded_strings_flagging_file_ignore(lines) ==
  LET st == parse_ignore_comments(lines)
  IN  ExtractFrom(lines, 1,
                  IF st.ignore_entire_file
                    THEN [st EXCEPT !.ignored_lines = 1..Len(lines)]
                    ELSE st)

\* validate_i18n.py:212-249: (text, line_num, is_ignored) triples
extract_hardcoded_strings(lines) ==
  LET st == parse_ignore_comments(lines)
  IN  IF st.ignore_entire_file THEN <<>> ELSE ExtractFrom(lines, 1, st)

\* ------------------------------------------------- key reference collector

\* the end of the maximal run [^'"]+ that starts at position i
RECURSIVE KeyRunEnd(_, _)
KeyRunEnd(content, i) ==
  IF i <= Len(content) /\ content[i] # "'" /\ content[i] # "\""
    THEN KeyRunEnd(content, i + 1)
    ELSE i - 1

IsQuote(content, i) == i <= Len(content) /\ content[i] \in {"'", "\""}

\* whether r't\([\'"]([^\'"]+)[\'"]\)' matches at position p
CallAt(content, p) ==
  /\ p + 2 <= Len(content)
  /\ content[p] = "t"
  /\ content[p + 1] = "("
  /\ IsQuote(content, p + 2)
  /\ KeyRunEnd(content, p + 3) >= p + 3
  /\ IsQuote(content, KeyRunEnd(content, p + 3) + 1)
  /\ KeyRunEnd(content, p + 3) + 2 <= Len(content)
  /\ content[KeyRunEnd(content, p + 3) + 2] = ")"

\* re.findall: group 1 of the matches, each search resuming after the previous one
RECURSIVE FindCalls(_, _)
FindCalls(content, p) ==
  IF p > Len(content) THEN {}
  ELSE IF CallAt(content, p)
    THEN {SubSeq(content, p + 3, KeyRunEnd(content, p + 3))}
           \cup FindCalls(content, KeyRunEnd(content, p + 3) + 3)
    ELSE FindCalls(content, p + 1)

\* validate_i18n.py:42-46 and find_hardcoded_strings.py:44-49
extract_translation_calls(content) == FindCalls(content, 1)

\* the text f.read() returns for a file whose lines are `lines`
Content(lines) == Join(lines, <<"\n">>)

\* ------------------------------------------------------------ locale keys

\* A parsed JSON value: [type |-> "dict", items |-> <<<<key, value>>, ...>>] or
\* a value of another type, [type |-> "str"] or [type |-> "list"].
IsDict(v) == v.type = "dict"

RECURSIVE flatten_keys(_, _)
\* validate_i18n.py:31-40
flatten_keys(obj, prefix) ==
  UNION { LET key == obj.items[k][1]
              value == obj.items[k][2]
              new_key == IF prefix # <<>> THEN prefix \o <<".">> \o key ELSE key
          IN  IF IsDict(value) THEN flatten_keys(value, new_key) ELSE {new_key}
          : k \in 1..Len(obj.items) }

\* A locale file: [kind |-> "missing"] (open raises), [kind |-> "malformed"]
\* (json.load raises) or [kind |-> "json", data |-> value].
\* validate_i18n.py:21-29: whether the try block raises
LoadRaises(file) ==
  \/ file.kind \in {"missing", "malformed"}
  \/ file.kind = "json" /\ ~IsDict(file.data)   \* obj.items() on a non-dict

\* validate_i18n.py:21-29
load_translation_keys(file) ==
  IF LoadRaises(file) THEN {} ELSE flatten_keys(file.data, <<>>)

Langs == {"sv", "en"}

\* a missing-key check that keeps an entry for a locale that misses nothing
validate_translation_keys_every_locale(used, translation_files) ==
  [lang \in Langs |-> used \ load_translation_keys(translation_files[lang])]

\* a missing-key check that passes over a locale whose file does not load
validate_translation_keys_loaded_only(used, translation_files) ==
  LET missing(lang) == used \ load_translation_keys(translation_files[lang])
      reported == {lang \in Langs : ~LoadRaises(translation_files[lang]) /\ missing(lang) # {}}
  IN  [lang \in reported |-> missing(lang)]

\* validate_i18n.py:251-261: the locales are read again from disk
validate_translation_keys(used, translation_files) ==
  LET missing(lang) == used \ load_translation_keys(translation_files[lang])
      reported == {lang \in Langs : missing(lang) # {}}
  IN  [lang \in reported |-> missing(lang)]

\* ------------------------------------- find_hardcoded_strings.py, extractor

\* find_hardcoded_strings.py:143-151: the entries one line contributes
FH_LineEntries(line, num) ==
  LET texts == SelectSeq(LineLiterals(line), FH_is_likely_user_facing_text)
  IN  [k \in 1..Len(texts) |-> <<texts[k], num>>]

RECURSIVE FH_ExtractFrom(_, _)
\* find_hardcoded_strings.py:130-151: the loop over the lines
FH_ExtractFrom(lines, num) ==
  IF num > Len(lines) THEN <<>>
  ELSE (IF IsSkippedLine(lines[num]) THEN <<>> ELSE FH_LineEntries(lines[num], num))
         \o FH_ExtractFrom(lines, num + 1)

\* find_hardcoded_strings.py:124-153: (text, line_num) pairs
FH_extract_hardcoded_strings(lines) == FH_ExtractFrom(lines, 1)

\* ------------------------------------------------------------------ state

VARIABLES
  \* the inputs of a run
  tool,                    \* "validate" (validate_i18n.py) or "find" (find_hardcoded_strings.py)
  frontend_exists,         \* os.path.exists(frontend_path)
  locale_files,            \* the locale files on disk, per language
  tree,                    \* the source files in the order os.walk yields them
  paths,                   \* paths[k]: the path of tree[k], a number that sorts as the path does
  fail_on_issues,          \* the parameter of validate_i18n.analyze_frontend_strings
  \* analyze_frontend_strings
  pc,                      \* "start", "walk", "done"
  all_translation_keys,    \* per language (find: sv_keys, en_keys)
  file_idx,                \* the number of files the walk has visited
  all_files,
  issues,                  \* find: total_hardcoded
  ignored_strings,
  used_keys,
  missing_translation_keys,
  ret,                     \* the return value, meaningful once pc = "done"
  reconciled,              \* whether the run reached the missing-key check and the summary
  errors,                  \* the error lines printed, in order
  \* parse_ignore_comments, its loop taken line by line
  p_lines,                 \* content.split('\n')
  p_pc,                    \* "idle", "loop", "done"
  line_num,
  ignored_lines,
  ignored_blocks,
  ignore_entire_file,
  in_ignore_block,
  block_start,
  \* is_likely_user_facing_text on one literal
  variant,                 \* the script whose classifier is applied
  c_text,                  \* the literal's text
  verdict,                 \* "none" before the call, then "UserFacing" or "Technical",
                           \* or "IndexError" when the call raised
  first_char_read          \* the call evaluated text[0]

inputVars == <<tool, frontend_exists, locale_files, tree, paths, fail_on_issues>>
runVars ==
  <<pc, all_translation_keys, file_idx, all_files, issues, ignored_strings, used_keys,
    missing_translation_keys, ret, reconciled, errors>>
parseVars ==
  <<p_lines, p_pc, line_num, ignored_lines, ignored_blocks, ignore_entire_file,
    in_ignore_block, block_start>>
classVars == <<variant, c_text, verdict, first_char_read>>
vars == <<inputVars, runVars, parseVars, classVars>>

\* ------------------------------------------------- analyze_frontend_strings

\* the path of the k-th file of the walk, relative to base_path
rel_path(k) == paths[k]

\* validate_i18n.py:329
KnownKeySuffix == <<" ", "(", "k", "n", "o", "w", "n", " ", "t", "r", "a", "n", "s", "l", "a", "t", "i", "o", "n", " ", "k", "e", "y", ")">>

\* the locales that fail to load, in the order of the translation_files dict
LoadErrors(files) ==
  SelectSeq(<<"sv", "en">>, LAMBDA lang : LoadRaises(files[lang]))

\* validate_i18n.py:319-322
AllKnownKeys(keys) == UNION {keys[lang] : lang \in Langs}

\* a disposition that looks the text up among the known keys first
Disposition_known_first(entry, known) ==
  IF entry[1] \in known THEN "known"
  ELSE IF entry[3] THEN "ignored"
  ELSE "issue"

\* a disposition without the known-key branch
Disposition_without_known(entry, known) ==
  IF entry[3] THEN "ignored" ELSE "issue"

\* validate_i18n.py:324-331: where one extracted string goes
Disposition(entry, known) ==
  IF entry[3] THEN "ignored"
  ELSE IF entry[1] \in known THEN "known"
  ELSE "issue"

\* validate_i18n.py:326, 329, 331: the tuple appended for one extracted string
Finding(path, entry, known) ==
  IF Disposition(entry, known) = "known"
    THEN <<path, entry[2], entry[1] \o KnownKeySuffix>>
    ELSE <<path, entry[2], entry[1]>>

\* validate_i18n.py:324-331: the strings of one file appended to a list
FileFindings(path, hardcoded, known, which) ==
  LET kept == SelectSeq(hardcoded, LAMBDA e : Disposition(e, known) \in which)
  IN  [k \in 1..Len(kept) |-> Finding(path, kept[k], known)]

\* validate_i18n.py:271-273 and find_hardcoded_strings.py:164-166
NoFrontend ==
  /\ pc = "start"
  /\ ~frontend_exists
  /\ pc' = "done"
  /\ ret' = IF tool = "validate" THEN 1 ELSE ret
  /\ errors' = Append(errors, <<"frontend">>)
  /\ UNCHANGED <<all_translation_keys, file_idx, all_files, issues, ignored_strings,
                 used_keys, missing_translation_keys, reconciled>>
  /\ UNCHANGED <<inputVars, parseVars, classVars>>

\* validate_i18n.py:281-284 and find_hardcoded_strings.py:168-173
LoadKeys ==
  /\ pc = "start"
  /\ frontend_exists
  /\ all_translation_keys' = [lang \in Langs |-> load_translation_keys(locale_files[lang])]
  /\ errors' = errors \o [k \in 1..Len(LoadErrors(locale_files)) |->
                            <<"locale", LoadErrors(locale_files)[k]>>]
  /\ pc' = "walk"
  /\ UNCHANGED <<file_idx, all_files, issues, ignored_strings, used_keys,
                 missing_translation_keys, ret, reconciled>>
  /\ UNCHANGED <<inputVars, parseVars, classVars>>

\* validate_i18n.py:302-331: a file that is read
AnalyzeFile ==
  /\ tool = "validate"
  /\ pc = "walk"
  /\ file_idx < Len(tree)
  /\ tree[file_idx + 1].readable
  /\ LET path == rel_path(file_idx + 1)
         lines == tree[file_idx + 1].lines
         hardcoded == extract_hardcoded_strings(lines)
         all_known_keys == AllKnownKeys(all_translation_keys)
     IN  /\ all_files' = Append(all_files, path)
         /\ used_keys' = used_keys \cup extract_translation_calls(Content(lines))
         /\ ignored_strings' =
              ignored_strings \o FileFindings(path, hardcoded, all_known_keys, {"ignored", "known"})
         /\ issues' = issues \o FileFindings(path, hardcoded, all_known_keys, {"issue"})
  /\ file_idx' = file_idx + 1
  /\ UNCHANGED <<pc, all_translation_keys, missing_translation_keys, ret, reconciled, errors>>
  /\ UNCHANGED <<inputVars, parseVars, classVars>>

\* a walk that stops at a file it cannot read, without returning
SkipUnreadable_stopping ==
  /\ tool = "validate"
  /\ pc = "walk"
  /\ file_idx < Len(tree)
  /\ ~tree[file_idx + 1].readable
  /\ ~fail_on_issues
  /\ all_files' = Append(all_files, rel_path(file_idx + 1))
  /\ errors' = Append(errors, <<"file", rel_path(file_idx + 1)>>)
  /\ file_idx' = Len(tree)
  /\ UNCHANGED <<pc, all_translation_keys, issues, ignored_strings, used_keys,
                 missing_translation_keys, ret, reconciled>>
  /\ UNCHANGED <<inputVars, parseVars, classVars>>

\* validate_i18n.py:333-336: open or read raises and fail_on_issues is false
SkipUnreadable ==
  /\ tool = "validate"
  /\ pc = "walk"
  /\ file_idx < Len(tree)
  /\ ~tree[file_idx + 1].readable
  /\ ~fail_on_issues
  /\ all_files' = Append(all_files, rel_path(file_idx + 1))
  /\ errors' = Append(errors, <<"file", rel_path(file_idx + 1)>>)
  /\ file_idx' = file_idx + 1
  /\ UNCHANGED <<pc, all_translation_keys, issues, ignored_strings, used_keys,
                 missing_translation_keys, ret, reconciled>>
  /\ UNCHANGED <<inputVars, parseVars, classVars>>

\* validate_i18n.py:333-336: open or read raises and fail_on_issues is true
AbortUnreadable ==
  /\ tool = "validate"
  /\ pc = "walk"
  /\ file_idx < Len(tree)
  /\ ~tree[file_idx + 1].readable
  /\ fail_on_issues
  /\ all_files' = Append(all_files, rel_path(file_idx + 1))
  /\ errors' = Append(errors, <<"file", rel_path(file_idx + 1)>>)
  /\ file_idx' = file_idx + 1
  /\ ret' = 1
  /\ pc' = "done"
  /\ UNCHANGED <<all_translation_keys, issues, ignored_strings, used_keys,
                 missing_translation_keys, reconciled>>
  /\ UNCHANGED <<inputVars, parseVars, classVars>>

\* validate_i18n.py:338-393: the missing-key check, the report and the return
Reconcile ==
  /\ tool = "validate"
  /\ pc = "walk"
  /\ file_idx = Len(tree)
  /\ missing_translation_keys' = validate_translation_keys(used_keys, locale_files)
  /\ errors' = errors \o [k \in 1..Len(LoadErrors(locale_files)) |->
                            <<"locale", LoadErrors(locale_files)[k]>>]
  /\ reconciled' = TRUE
  /\ ret' = 0
  /\ pc' = "done"
  /\ UNCHANGED <<all_translation_keys, file_idx, all_files, issues, ignored_strings, used_keys>>
  /\ UNCHANGED <<inputVars, parseVars, classVars>>

\* find_hardcoded_strings.py:186-208: a file that is read
FH_AnalyzeFile ==
  /\ tool = "find"
  /\ pc = "walk"
  /\ file_idx < Len(tree)
  /\ tree[file_idx + 1].readable
  /\ LET path == rel_path(file_idx + 1)
         lines == tree[file_idx + 1].lines
         hardcoded == FH_extract_hardcoded_strings(lines)
     IN  /\ all_files' = Append(all_files, path)
         /\ used_keys' = used_keys \cup extract_translation_calls(Content(lines))
         /\ issues' = issues \o [k \in 1..Len(hardcoded) |->
                                   <<path, hardcoded[k][2], hardcoded[k][1]>>]
  /\ file_idx' = file_idx + 1
  /\ UNCHANGED <<pc, all_translation_keys, ignored_strings, missing_translation_keys,
                 ret, reconciled, errors>>
  /\ UNCHANGED <<inputVars, parseVars, classVars>>

\* find_hardcoded_strings.py:210-211: open or read raises
FH_SkipUnreadable ==
  /\ tool = "find"
  /\ pc = "walk"
  /\ file_idx < Len(tree)
  /\ ~tree[file_idx + 1].readable
  /\ all_files' = Append(all_files, rel_path(file_idx + 1))
  /\ errors' = Append(errors, <<"file", rel_path(file_idx + 1)>>)
  /\ file_idx' = file_idx + 1
  /\ UNCHANGED <<pc, all_translation_keys, issues, ignored_strings, used_keys,
                 missing_translation_keys, ret, reconciled>>
  /\ UNCHANGED <<inputVars, parseVars, classVars>>

\* find_hardcoded_strings.py:221-236: missing_sv and missing_en, each reported
\* when it is not empty
FH_MissingKeys(used, keys) ==
  LET missing(lang) == used \ keys[lang]
      reported == {lang \in Langs : missing(lang) # {}}
  IN  [lang \in reported |-> missing(lang)]

\* find_hardcoded_strings.py:213-256: the summary
FH_Summary ==
  /\ tool = "find"
  /\ pc = "walk"
  /\ file_idx = Len(tree)
  /\ missing_translation_keys' = FH_MissingKeys(used_keys, all_translation_keys)
  /\ reconciled' = TRUE
  /\ pc' = "done"
  /\ UNCHANGED <<all_translation_keys, file_idx, all_files, issues, ignored_strings,
                 used_keys, ret, errors>>
  /\ UNCHANGED <<inputVars, parseVars, classVars>>

\* -------------------------------------------- parse_ignore_comments, stepped

\* validate_i18n.py:180-197: one iteration of the loop
ParseNextLine ==
  /\ p_pc = "loop"
  /\ line_num < Len(p_lines)
  /\ LET st == [ ignored_lines |-> ignored_lines, ignored_blocks |-> ignored_blocks,
                 ignore_entire_file |-> ignore_entire_file,
                 in_ignore_block |-> in_ignore_block, block_start |-> block_start ]
         nx == ParseLine(st, line_num + 1, p_lines[line_num + 1])
     IN  /\ ignored_lines' = nx.ignored_lines
         /\ ignored_blocks' = nx.ignored_blocks
         /\ ignore_entire_file' = nx.ignore_entire_file
         /\ in_ignore_block' = nx.in_ignore_block
         /\ block_start' = nx.block_start
  /\ line_num' = line_num + 1
  /\ UNCHANGED <<p_lines, p_pc>>
  /\ UNCHANGED <<inputVars, runVars, classVars>>

\* validate_i18n.py:199
ParseReturn ==
  /\ p_pc = "loop"
  /\ line_num = Len(p_lines)
  /\ p_pc' = "done"
  /\ UNCHANGED <<p_lines, line_num, ignored_lines, ignored_blocks, ignore_entire_file,
                 in_ignore_block, block_start>>
  /\ UNCHANGED <<inputVars, runVars, classVars>>

\* ------------------------------------------- is_likely_user_facing_text, one call

\* validate_i18n.py:78-168
Classify ==
  /\ variant = "validate"
  /\ verdict = "none"
  /\ first_char_read' = (~Excluded(c_text) /\ ReadsFirstChar(c_text))
  /\ verdict' = IF first_char_read' /\ c_text = <<>>
                  THEN "IndexError"
                  ELSE IF is_likely_user_facing_text(c_text) THEN "UserFacing" ELSE "Technical"
  /\ UNCHANGED <<variant, c_text>>
  /\ UNCHANGED <<inputVars, runVars, parseVars>>

\* find_hardcoded_strings.py:51-122
FH_Classify ==
  /\ variant = "find"
  /\ verdict = "none"
  /\ first_char_read' = (~FH_Excluded(c_text) /\ ReadsFirstChar(c_text))
  /\ verdict' = IF first_char_read' /\ c_text = <<>>
                  THEN "IndexError"
                  ELSE IF FH_is_likely_user_facing_text(c_text) THEN "UserFacing" ELSE "Technical"
  /\ UNCHANGED <<variant, c_text>>
  /\ UNCHANGED <<inputVars, runVars, parseVars>>

\* ----------------------------------------------------------------- inputs

MaxFiles == 2        \* files in a walk of several files
MaxLines == 3        \* lines of the file in a walk of one file
MaxParseLines == 4   \* lines of a file given to parse_ignore_comments alone

MaxFragments == 2    \* fragments a classified text is made of
MaxExtractLines == 2 \* lines of a file given to the extractor and the key collector

SeqsUpTo(S, n) == UNION {[1..k -> S] : k \in 0..n}

\* the pieces the classified texts are made of
Fragments ==
  { <<"S", "a", "v", "e">>, <<" ">>, <<"e", "r", "r", "o", "r">>, <<"f", "l", "e", "x">>, <<"s">>, <<"-">>, <<".">>, <<"/">>, <<"@">>, <<"p", "n", "g">>,
    <<"1", "2">>, <<"#", "f", "f", "f">>, <<"x">>, <<"O", "k">>, <<"\n">>, <<"m", "i", "n", "-">>, <<":", ":">>, <<"G", "E", "T">>, <<"w">>, <<":">> }

RECURSIVE Concat(_)
Concat(parts) == IF parts = <<>> THEN <<>> ELSE Head(parts) \o Concat(Tail(parts))

\* the classified texts: every concatenation of up to MaxFragments fragments
Texts == {Concat(parts) : parts \in SeqsUpTo(Fragments, MaxFragments)}

File(lines, readable) == [lines |-> lines, readable |-> readable]

\* source lines
LineUser == <<"x", " ", "=", " ", "\"", "P", "l", "e", "a", "s", "e", " ", "c", "o", "n", "f", "i", "r", "m", "\"", ";">>
LineKey == <<"k", " ", "=", " ", "'", "a", "u", "t", "h", ".", "l", "o", "g", "i", "n", "'", ";">>
LineTechnical == <<"c", " ", "=", " ", "\"", "f", "l", "e", "x", "\"", ";">>
LineUserInline == <<"x", " ", "=", " ", "\"", "P", "l", "e", "a", "s", "e", " ", "c", "o", "n", "f", "i", "r", "m", "\"", ";", " ", "/", "/", " ", "i", "1", "8", "n", "-", "i", "g", "n", "o", "r", "e">>
LineFileIgnore == <<"/", "/", " ", "i", "1", "8", "n", "-", "i", "g", "n", "o", "r", "e", "-", "f", "i", "l", "e">>
LineBlockStart == <<"/", "*", " ", "i", "1", "8", "n", "-", "i", "g", "n", "o", "r", "e", "-", "b", "l", "o", "c", "k", " ", "*", "/">>
LineUserBlockStart == <<"x", " ", "=", " ", "\"", "P", "l", "e", "a", "s", "e", " ", "c", "o", "n", "f", "i", "r", "m", "\"", ";", " ", "/", "*", " ", "i", "1", "8", "n", "-", "i", "g", "n", "o", "r", "e", "-", "b", "l", "o", "c", "k", " ", "*", "/">>
LineBlockEnd == <<"/", "*", " ", "i", "1", "8", "n", "-", "i", "g", "n", "o", "r", "e", "-", "b", "l", "o", "c", "k", "-", "e", "n", "d", " ", "*", "/">>
LineSlashBlockStart == <<"/", "/", " ", "i", "1", "8", "n", "-", "i", "g", "n", "o", "r", "e", "-", "b", "l", "o", "c", "k">>
LineSlashBlockEnd == <<"/", "/", " ", "i", "1", "8", "n", "-", "i", "g", "n", "o", "r", "e", "-", "b", "l", "o", "c", "k", "-", "e", "n", "d">>
LineCallNotFound == <<"t", "(", "'", "e", "r", "r", "o", "r", "s", ".", "n", "o", "t", "F", "o", "u", "n", "d", "'", ")">>
LineCallLogin == <<"t", "(", "\"", "a", "u", "t", "h", ".", "l", "o", "g", "i", "n", "\"", ")">>
LineMixed == <<"x", " ", "=", " ", "\"", "P", "l", "e", "a", "s", "e", " ", "c", "o", "n", "f", "i", "r", "m", "\"", " ", "+", " ", "'", "G", "o", "o", "d", " ", "B", "y", "e", "'", ";">>
LineTwice == <<"x", " ", "=", " ", "\"", "P", "l", "e", "a", "s", "e", " ", "c", "o", "n", "f", "i", "r", "m", "\"", " ", "+", " ", "\"", "P", "l", "e", "a", "s", "e", " ", "c", "o", "n", "f", "i", "r", "m", "\"", ";">>
LineImport == <<"i", "m", "p", "o", "r", "t", " ", "x", " ", "f", "r", "o", "m", " ", "\"", "P", "l", "e", "a", "s", "e", " ", "c", "o", "n", "f", "i", "r", "m", "\"", ";">>
LineEslint == <<"x", " ", "=", " ", "\"", "P", "l", "e", "a", "s", "e", " ", "c", "o", "n", "f", "i", "r", "m", "\"", ";", " ", "/", "/", " ", "e", "s", "l", "i", "n", "t", "-", "d", "i", "s", "a", "b", "l", "e", "-", "l", "i", "n", "e">>
LineIndentedComment == <<" ", " ", "/", "/", " ", "\"", "P", "l", "e", "a", "s", "e", " ", "c", "o", "n", "f", "i", "r", "m", "\"">>
LineUserBlockEnd == <<"x", " ", "=", " ", "\"", "P", "l", "e", "a", "s", "e", " ", "c", "o", "n", "f", "i", "r", "m", "\"", ";", " ", "/", "*", " ", "i", "1", "8", "n", "-", "i", "g", "n", "o", "r", "e", "-", "b", "l", "o", "c", "k", "-", "e", "n", "d", " ", "*", "/">>
LineQuotedBlockStart == <<"/", "*", " ", "i", "1", "8", "n", "-", "i", "g", "n", "o", "r", "e", "-", "b", "l", "o", "c", "k", " ", "*", "/", " ", "\"", "P", "l", "e", "a", "s", "e", " ", "c", "o", "n", "f", "i", "r", "m", "\"">>
LineAlert == <<"a", "l", "e", "r", "t", "(", "'", "a", "u", "t", "h", ".", "l", "o", "g", "i", "n", "'", ")">>

\* the lines of the file in a walk of one file
LineVocab ==
  { LineUser, LineKey, LineTechnical, LineUserInline, LineFileIgnore, LineUserBlockStart,
    LineBlockEnd }

\* the lines of a file given to parse_ignore_comments alone
ParseLineVocab ==
  { LineUser, LineUserInline, LineFileIgnore, LineBlockStart, LineBlockEnd,
    LineSlashBlockStart, LineSlashBlockEnd }

\* the files of a walk of several files: three that can be read and one that
\* cannot (it vanished, or it is no UTF-8)
SmallFiles ==
  { File(<<LineUser>>, TRUE), File(<<LineCallNotFound>>, TRUE), File(<<LineCallLogin>>, TRUE),
    File(<<LineUser, LineCallNotFound>>, FALSE) }

Leaf == [type |-> "str"]
Dict(items) == [type |-> "dict", items |-> items]

\* sv.json: {"auth": {"login": ".."}, "title": ".."}
SvJson ==
  [ kind |-> "json",
    data |-> Dict(<< <<<<"a", "u", "t", "h">>, Dict(<< <<<<"l", "o", "g", "i", "n">>, Leaf>> >>)>>, <<<<"t", "i", "t", "l", "e">>, Leaf>> >>) ]
\* en.json: {"auth": {"login": ".."}, "errors": {"notFound": ".."}, "title": ".."}
EnJson ==
  [ kind |-> "json",
    data |-> Dict(<< <<<<"a", "u", "t", "h">>, Dict(<< <<<<"l", "o", "g", "i", "n">>, Leaf>> >>)>>,
                     <<<<"e", "r", "r", "o", "r", "s">>, Dict(<< <<<<"n", "o", "t", "F", "o", "u", "n", "d">>, Leaf>> >>)>>,
                     <<<<"t", "i", "t", "l", "e">>, Leaf>> >>) ]
\* a file that is valid JSON but holds a list
ListJson == [kind |-> "json", data |-> [type |-> "list"]]
Malformed == [kind |-> "malformed"]
Missing == [kind |-> "missing"]

Locales(sv, en) == [lang \in Langs |-> IF lang = "sv" THEN sv ELSE en]
GoodLocales == Locales(SvJson, EnJson)
LocaleConfigs ==
  { GoodLocales, Locales(Malformed, EnJson), Locales(SvJson, Missing),
    Locales(SvJson, ListJson), Locales(Malformed, Missing) }

\* walks of up to MaxFiles small files
ShortTrees == SeqsUpTo(SmallFiles, MaxFiles)
\* walks of one readable file of up to MaxLines lines
RichTrees == {<<File(f, TRUE)>> : f \in SeqsUpTo(LineVocab, MaxLines) \ {<<>>}}

InitInputs ==
  \/ /\ frontend_exists = FALSE
     /\ tool \in {"validate", "find"}
     /\ locale_files = GoodLocales
     /\ tree = <<>>
     /\ fail_on_issues = FALSE
  \/ /\ frontend_exists = TRUE
     /\ tool = "validate"
     /\ locale_files \in LocaleConfigs
     /\ tree \in ShortTrees
     /\ fail_on_issues \in BOOLEAN
  \/ /\ frontend_exists = TRUE
     /\ tool = "find"
     /\ locale_files \in LocaleConfigs
     /\ tree \in ShortTrees
     /\ fail_on_issues = FALSE
  \/ /\ frontend_exists = TRUE
     /\ tool = "validate"
     /\ locale_files = GoodLocales
     /\ tree \in RichTrees
     /\ fail_on_issues = FALSE

\* os.walk yields the files in the order of their paths
Lexicographic(n) == [k \in 1..n |-> k]

\* validate_i18n.py:292-295 and the state before the first statement
InitRun ==
  /\ pc = "start"
  /\ all_translation_keys = [lang \in Langs |-> {}]
  /\ file_idx = 0
  /\ all_files = <<>>
  /\ issues = <<>>
  /\ ignored_strings = <<>>
  /\ used_keys = {}
  /\ missing_translation_keys = <<>>
  /\ ret = 0
  /\ reconciled = FALSE
  /\ errors = <<>>

\* validate_i18n.py:172-178
InitParse(lines) ==
  /\ p_lines = lines
  /\ line_num = 0
  /\ ignored_lines = ParseStart.ignored_lines
  /\ ignored_blocks = ParseStart.ignored_blocks
  /\ ignore_entire_file = ParseStart.ignore_entire_file
  /\ in_ignore_block = ParseStart.in_ignore_block
  /\ block_start = ParseStart.block_start

InitClassIdle ==
  /\ variant = "validate"
  /\ c_text = <<>>
  /\ verdict = "idle"
  /\ first_char_read = FALSE

\* A run of one of the two scripts.
Init ==
  /\ InitInputs
  /\ paths = Lexicographic(Len(tree))
  /\ InitRun
  /\ p_pc = "idle"
  /\ InitParse(<<>>)
  /\ InitClassIdle

Next ==
  \/ NoFrontend
  \/ LoadKeys
  \/ AnalyzeFile
  \/ SkipUnreadable
  \/ AbortUnreadable
  \/ Reconcile
  \/ FH_AnalyzeFile
  \/ FH_SkipUnreadable
  \/ FH_Summary

Spec == Init /\ [][Next]_vars

\* parse_ignore_comments on one file, its loop taken line by line.
InitParseOnly ==
  /\ tool = "validate"
  /\ frontend_exists = TRUE
  /\ locale_files = GoodLocales
  /\ tree = <<>>
  /\ paths = <<>>
  /\ fail_on_issues = FALSE
  /\ InitRun
  /\ p_pc = "loop"
  /\ \E lines \in SeqsUpTo(ParseLineVocab, MaxParseLines) \ {<<>>} : InitParse(lines)
  /\ InitClassIdle

NextParse == ParseNextLine \/ ParseReturn

SpecParse == InitParseOnly /\ [][NextParse]_vars

\* is_likely_user_facing_text of either script on one text.
InitClassify ==
  /\ tool = "validate"
  /\ frontend_exists = TRUE
  /\ locale_files = GoodLocales
  /\ tree = <<>>
  /\ paths = <<>>
  /\ fail_on_issues = FALSE
  /\ InitRun
  /\ p_pc = "idle"
  /\ InitParse(<<>>)
  /\ variant \in {"validate", "find"}
  /\ c_text \in Texts
  /\ verdict = "none"
  /\ first_char_read = FALSE

NextClassify == Classify \/ FH_Classify

SpecClassify == InitClassify /\ [][NextClassify]_vars

\* the orders in which a file system may enumerate n directory entries
Orderings(n) == {p \in [1..n -> 1..n] : \A j, k \in 1..n : p[j] = p[k] => j = k}

\* the files of a directory that os.walk yields in the file system's order
WalkFiles ==
  { File(<<LineUser>>, TRUE), File(<<LineUserInline>>, TRUE), File(<<LineKey>>, TRUE),
    File(<<LineTechnical>>, TRUE), File(<<LineCallNotFound>>, TRUE) }

\* validate_i18n.py over one directory: os.walk takes the entries as the file
\* system enumerates them (validate_i18n.py:298-302 sorts nothing).
InitWalk ==
  /\ tool = "validate"
  /\ frontend_exists = TRUE
  /\ locale_files = GoodLocales
  /\ fail_on_issues = FALSE
  /\ \E n \in 1..MaxFiles :
       /\ tree \in [1..n -> WalkFiles]
       /\ paths \in Orderings(n)
  /\ InitRun
  /\ p_pc = "idle"
  /\ InitParse(<<>>)
  /\ InitClassIdle

NextWalk == LoadKeys \/ AnalyzeFile \/ Reconcile

SpecWalk == InitWalk /\ [][NextWalk]_vars

\* the lines of a file given to the extractor and the key collector
ExtractLineVocab ==
  { LineUser, LineMixed, LineTwice, LineImport, LineEslint, LineIndentedComment,
    LineFileIgnore, LineQuotedBlockStart, LineUserBlockEnd, LineCallNotFound, LineAlert }

\* Either script on one file that is read: extract_translation_calls and
\* extract_hardcoded_strings on its text.
InitExtract ==
  /\ tool \in {"validate", "find"}
  /\ frontend_exists = TRUE
  /\ locale_files = GoodLocales
  /\ fail_on_issues = FALSE
  /\ \E lines \in SeqsUpTo(ExtractLineVocab, MaxExtractLines) \ {<<>>} :
       tree = <<File(lines, TRUE)>>
  /\ paths = Lexicographic(1)
  /\ InitRun
  /\ p_pc = "idle"
  /\ InitParse(<<>>)
  /\ InitClassIdle

NextExtract == LoadKeys \/ AnalyzeFile \/ Reconcile \/ FH_AnalyzeFile \/ FH_Summary

SpecExtract == InitExtract /\ [][NextExtract]_vars

\* ------------------------------------------------------------- properties

\* The four markers as the annotation parser's contract names them. Every
\* marker text begins with one of the two inline-ignore texts.
HasMarker(line) == ContainsAny(line, InlineMarkers)
HasFileMarker(line) == ContainsAny(line, FileMarkers)
HasBlockEndMarker(line) == ContainsAny(line, BlockEndMarkers)
\* a block-start marker that is not the beginning of a block-end marker
HasBlockStartMarker(line) ==
  \/ Contains(line, <<"/", "*", " ", "i", "1", "8", "n", "-", "i", "g", "n", "o", "r", "e", "-", "b", "l", "o", "c", "k", " ", "*", "/">>)
  \/ \E i \in 0..(Len(line) - 20) :
       /\ SubSeq(line, i + 1, i + 20) = <<"/", "/", " ", "i", "1", "8", "n", "-", "i", "g", "n", "o", "r", "e", "-", "b", "l", "o", "c", "k">>
       /\ ~StartsWith(SubSeq(line, i + 1, Len(line)), <<"/", "/", " ", "i", "1", "8", "n", "-", "i", "g", "n", "o", "r", "e", "-", "b", "l", "o", "c", "k", "-", "e", "n", "d">>)

Range(seq) == {seq[k] : k \in 1..Len(seq)}
Count(seq, x) == Cardinality({k \in 1..Len(seq) : seq[k] = x})
SameBag(a, b) == \A x \in Range(a) \cup Range(b) : Count(a, x) = Count(b, x)

\* the entries of a findings list that name the i-th file of the walk
Entries(list, i) == SelectSeq(list, LAMBDA e : e[1] = rel_path(i))

RECURSIVE LiteralsFrom(_, _)
LiteralsFrom(lines, num) ==
  IF num > Len(lines) THEN <<>>
  ELSE (IF IsSkippedLine(lines[num])
          THEN <<>>
          ELSE [k \in 1..Len(LineLiterals(lines[num])) |-> <<LineLiterals(lines[num])[k], num>>])
         \o LiteralsFrom(lines, num + 1)

\* validate_i18n.py:225-242: every literal occurrence of a file, as (text, line)
FileLiterals(lines) == LiteralsFrom(lines, 1)

\* the defined-key set of a locale, and the union over the locales
Defined(lang) == load_translation_keys(locale_files[lang])
Known == UNION {Defined(lang) : lang \in Langs}

\* file i of the walk has been read and analyzed by validate_i18n.py
Analyzed(i) == tool = "validate" /\ i \in 1..file_idx /\ tree[i].readable
LinesOf(i) == tree[i].lines
CarriesFileMarker(lines) == \E n \in 1..Len(lines) : HasFileMarker(lines[n])
LineIgnored(lines, n) ==
  LET st == parse_ignore_comments(lines)
  IN  is_line_ignored(n, st.ignored_lines, st.ignored_blocks)
Unreadable == {i \in 1..Len(tree) : ~tree[i].readable}
Readable == {i \in 1..Len(tree) : tree[i].readable}

\* C1: in a file where a block-start marker is on line s and the next marker
\* is a block-end marker on line e > s, in either comment style,
\* parse_ignore_comments records the range (s, e): every line from s to e is
\* ignored, and line e + 1 is not when it carries no marker.
C1_BlockRangeRecorded ==
  p_pc = "done" =>
    \A s, e \in 1..Len(p_lines) :
      ( /\ s < e
        /\ HasBlockStartMarker(p_lines[s])
        /\ HasBlockEndMarker(p_lines[e])
        /\ \A m \in (s + 1)..(e - 1) : ~HasMarker(p_lines[m]) )
      => /\ <<s, e>> \in ignored_blocks
         /\ \A n \in s..e : is_line_ignored(n, ignored_lines, ignored_blocks)
         /\ (e + 1 <= Len(p_lines) /\ ~HasMarker(p_lines[e + 1]))
              => ~is_line_ignored(e + 1, ignored_lines, ignored_blocks)

\* C2: a file that carries the file-ignore marker on any line contributes no
\* entry to the issues list, whatever lines the literals are on.
C2_WholeFileSuppression ==
  \A i \in 1..file_idx :
    (Analyzed(i) /\ CarriesFileMarker(LinesOf(i))) => Entries(issues, i) = <<>>

\* C2 witness: an analyzed file with the marker on a later line than a
\* user-facing literal that is no known key and sits on an unannotated line.
C2_Witness ==
  \E i \in 1..file_idx :
    /\ Analyzed(i)
    /\ \E n \in 2..Len(LinesOf(i)) :
         /\ HasFileMarker(LinesOf(i)[n])
         /\ \E m \in 1..(n - 1) :
              /\ ~HasMarker(LinesOf(i)[m])
              /\ ~IsSkippedLine(LinesOf(i)[m])
              /\ \E t \in Range(LineLiterals(LinesOf(i)[m])) :
                   is_likely_user_facing_text(t) /\ t \notin Known

\* a file whose only marker is one block-start marker, on line s
OnlyBlockStart(lines, s) ==
  /\ s \in 1..Len(lines)
  /\ HasBlockStartMarker(lines[s])
  /\ ~HasBlockEndMarker(lines[s])
  /\ ~HasFileMarker(lines[s])
  /\ \A n \in 1..Len(lines) : n # s => ~HasMarker(lines[n])

\* the literal occurrences of file i that must become issues: user-facing,
\* no known key, on a line among `on`
MustBeIssues(i, on) ==
  \A k \in 1..Len(FileLiterals(LinesOf(i))) :
    LET text == FileLiterals(LinesOf(i))[k][1]
        num == FileLiterals(LinesOf(i))[k][2]
    IN  (num \in on /\ is_likely_user_facing_text(text) /\ text \notin Known)
          => Count(issues, <<rel_path(i), num, text>>) >= 1

\* C3: an unterminated block suppresses nothing, not even its own block-start
\* line: no range is recorded, is_line_ignored is false for every line, and every
\* user-facing literal of the file that is no known key is an issue.
C3_UnterminatedSuppressesNothing ==
  \A i \in 1..file_idx : \A s \in 1..Len(LinesOf(i)) :
    (Analyzed(i) /\ OnlyBlockStart(LinesOf(i), s)) =>
      /\ parse_ignore_comments(LinesOf(i)).ignored_blocks = {}
      /\ \A n \in 1..Len(LinesOf(i)) : ~LineIgnored(LinesOf(i), n)
      /\ MustBeIssues(i, 1..Len(LinesOf(i)))

\* The outcome the disposition rule gives one literal occurrence. With
\* `whole`, a file-ignore marker counts as ignoring every line of the file.
Outcome(text, num, lines, whole) ==
  IF ~is_likely_user_facing_text(text) THEN "none"
  ELSE IF LineIgnored(lines, num) \/ (whole /\ CarriesFileMarker(lines)) THEN "annotated"
  ELSE IF text \in Known THEN "known"
  ELSE "issue"

\* the literal occurrences of file i, each with its outcome and the entry it
\* stands for
Expected(i, whole) ==
  LET lits == FileLiterals(LinesOf(i))
      outcome(k) == Outcome(lits[k][1], lits[k][2], LinesOf(i), whole)
  IN  [k \in 1..Len(lits) |->
         [ outcome |-> outcome(k),
           entry |-> <<rel_path(i), lits[k][2],
                       IF outcome(k) = "known" THEN lits[k][1] \o KnownKeySuffix
                                               ELSE lits[k][1]>> ]]

\* the entries of the occurrences with an outcome among `which`
EntriesOf(expected, which) ==
  LET kept == SelectSeq(expected, LAMBDA x : x.outcome \in which)
  IN  [k \in 1..Len(kept) |-> kept[k].entry]

\* C4 as stated: each literal occurrence of a read file has exactly one outcome,
\* by priority: Technical, no entry; line ignored per the file's suppression
\* state (ignored line, ignored range or whole-file flag), one entry in the
\* ignored list; known key, one entry in the ignored list; else one issue.
C4_DispositionPartition ==
  \A i \in 1..file_idx :
    Analyzed(i) =>
      LET expected == Expected(i, TRUE)
      IN  /\ SameBag(Entries(issues, i), EntriesOf(expected, {"issue"}))
          /\ SameBag(Entries(ignored_strings, i), EntriesOf(expected, {"annotated", "known"}))

\* C4 amended: the partition holds in every read file without a file-ignore
\* marker, "line ignored" being is_line_ignored; the literals of a file that
\* carries the file-ignore marker have no entry in either list.
C4_DispositionPartitionUnlessFileIgnored ==
  \A i \in 1..file_idx :
    Analyzed(i) =>
      IF CarriesFileMarker(LinesOf(i))
        THEN Entries(issues, i) = <<>> /\ Entries(ignored_strings, i) = <<>>
        ELSE LET expected == Expected(i, FALSE)
             IN  /\ SameBag(Entries(issues, i), EntriesOf(expected, {"issue"}))
                 /\ SameBag(Entries(ignored_strings, i),
                            EntriesOf(expected, {"annotated", "known"}))

\* C4 witness: one analyzed file with a Technical literal, an annotated one and
\* an issue, or with an annotated one, a known key and an issue.
C4_Witness ==
  \E i \in 1..file_idx :
    /\ Analyzed(i)
    /\ ~CarriesFileMarker(LinesOf(i))
    /\ \/ {"none", "annotated", "issue"} \subseteq {x.outcome : x \in Range(Expected(i, FALSE))}
       \/ {"annotated", "known", "issue"} \subseteq {x.outcome : x \in Range(Expected(i, FALSE))}
    /\ Len(Entries(issues, i)) = 1
    /\ Len(Entries(ignored_strings, i)) >= 1

\* C5: a literal whose text is a key of at least one locale is never in the
\* issues list; when it is user-facing and on an unannotated line it is in the
\* ignored list as a known translation key.
C5_KnownKeyShortCircuit ==
  tool = "validate" =>
    /\ \A e \in Range(issues) : e[3] \notin Known
    /\ \A i \in 1..file_idx :
         (Analyzed(i) /\ ~CarriesFileMarker(LinesOf(i))) =>
           \A l \in Range(FileLiterals(LinesOf(i))) :
             ( /\ l[1] \in Known
               /\ is_likely_user_facing_text(l[1])
               /\ ~LineIgnored(LinesOf(i), l[2]) )
             => Count(ignored_strings, <<rel_path(i), l[2], l[1] \o KnownKeySuffix>>) >= 1

\* C5 witness: a key that only one locale defines, recorded as a known key.
C5_Witness ==
  /\ tool = "validate"
  /\ <<"e", "r", "r", "o", "r", "s", ".", "n", "o", "t", "F", "o", "u", "n", "d">> \notin Defined("sv")
  /\ \E e \in Range(ignored_strings) : e[3] = <<"e", "r", "r", "o", "r", "s", ".", "n", "o", "t", "F", "o", "u", "n", "d">> \o KnownKeySuffix

\* C6 as stated: in a file that carries the file-ignore marker every line is
\* ignored per is_line_ignored, and each user-facing literal has an entry in
\* the ignored list.
C6_WholeFileCountsAsIgnored ==
  \A i \in 1..file_idx :
    (Analyzed(i) /\ CarriesFileMarker(LinesOf(i))) =>
      /\ \A n \in 1..Len(LinesOf(i)) : LineIgnored(LinesOf(i), n)
      /\ \A l \in Range(FileLiterals(LinesOf(i))) :
           is_likely_user_facing_text(l[1])
             => Count(ignored_strings, <<rel_path(i), l[2], l[1]>>) >= 1

\* C6 amended: a file that carries the file-ignore marker yields no finding at
\* all: extract_hardcoded_strings returns the empty list, so no literal of
\* the file is in the issues list or in the ignored list.
C6_WholeFileYieldsNoFinding ==
  \A i \in 1..file_idx :
    (Analyzed(i) /\ CarriesFileMarker(LinesOf(i))) =>
      /\ extract_hardcoded_strings(LinesOf(i)) = <<>>
      /\ Entries(issues, i) = <<>>
      /\ Entries(ignored_strings, i) = <<>>

\* C6 witness: an analyzed file with the marker on its first line and, on a
\* later line that is_line_ignored does not ignore, a user-facing literal.
C6_Witness ==
  \E i \in 1..file_idx :
    /\ Analyzed(i)
    /\ HasFileMarker(LinesOf(i)[1])
    /\ \E l \in Range(FileLiterals(LinesOf(i))) :
         /\ l[2] > 1
         /\ is_likely_user_facing_text(l[1])
         /\ ~LineIgnored(LinesOf(i), l[2])

\* C7: once all files are processed, a locale has a missing-key entry exactly
\* when some used key is not among its defined keys, and the entry is that
\* difference; a t('errors.notFound') in a read file is in sv's entry when sv
\* does not define it.
C7_MissingKeys ==
  (pc = "done" /\ reconciled) =>
    /\ \A lang \in Langs :
         lang \in DOMAIN missing_translation_keys <=> (used_keys \ Defined(lang)) # {}
    /\ \A lang \in DOMAIN missing_translation_keys :
         missing_translation_keys[lang] = used_keys \ Defined(lang)
    /\ ( /\ \E i \in Readable : Contains(Content(LinesOf(i)), LineCallNotFound)
         /\ <<"e", "r", "r", "o", "r", "s", ".", "n", "o", "t", "F", "o", "u", "n", "d">> \notin Defined("sv") )
       => /\ "sv" \in DOMAIN missing_translation_keys
          /\ <<"e", "r", "r", "o", "r", "s", ".", "n", "o", "t", "F", "o", "u", "n", "d">> \in missing_translation_keys["sv"]

\* C7 witness: a finished run that reports errors.notFound for sv and nothing for en.
C7_Witness ==
  /\ pc = "done"
  /\ reconciled
  /\ DOMAIN missing_translation_keys = {"sv"}
  /\ missing_translation_keys["sv"] = {<<"e", "r", "r", "o", "r", "s", ".", "n", "o", "t", "F", "o", "u", "n", "d">>}

\* the stage-1 rules of the classifier a text matches, per script
MatchesExclusion(v, text) ==
  \/ v = "validate" /\
       TRUE \in { ExclPrefix(text), ExclPath(text), ExclUrl(text), ExclFileName(text),
                  ExclEmail(text), ExclShort(text), ExclTerm(text), ExclUnit(text),
                  IsHexColor(text), ExclNumber(text), IsBlank(text), ExclIdentifier(text),
                  ExclToken(text), IsCssSelector(text), _is_css_class_string(text) }
  \/ v = "find" /\
       TRUE \in { StartsWithAny(text, FH_TechnicalPrefixes), ExclPath(text), ExclUrl(text),
                  ExclFileName(text), ExclEmail(text), ExclShort(text),
                  Lower(text) \in FH_TechnicalTerms, ExclUnit(text), IsHexColor(text),
                  ExclNumber(text), IsBlank(text), ExclIdentifier(text),
                  text \in FH_NonUiStrings }

\* the stage-2 rules a text of three or more characters matches
MatchesInclusion(v, text) ==
  /\ Len(text) >= 3
  /\ IF v = "validate" THEN Included(text) ELSE FH_Included(text)

\* C8: a text that matches any stage-1 exclusion rule is classified Technical,
\* whichever stage-2 inclusion rules it matches too.
C8_ExclusionPrecedence ==
  (verdict \in {"UserFacing", "Technical"} /\ MatchesExclusion(variant, c_text))
    => verdict = "Technical"

\* C8 witness: a classified text that matches an exclusion and an inclusion rule.
C8_Witness ==
  /\ verdict = "Technical"
  /\ MatchesExclusion(variant, c_text)
  /\ MatchesInclusion(variant, c_text)

\* what a run owes the files it could read: their key references and findings
ReadableFilesAnalyzed ==
  /\ used_keys = UNION {extract_translation_calls(Content(LinesOf(i))) : i \in Readable}
  /\ \A i \in Readable :
       IF tool = "validate"
         THEN LET hardcoded == extract_hardcoded_strings(LinesOf(i))
              IN  /\ Entries(issues, i) = FileFindings(rel_path(i), hardcoded, Known, {"issue"})
                  /\ Entries(ignored_strings, i) =
                       FileFindings(rel_path(i), hardcoded, Known, {"ignored", "known"})
         ELSE LET hardcoded == FH_extract_hardcoded_strings(LinesOf(i))
              IN  Entries(issues, i) =
                    [k \in 1..Len(hardcoded) |-> <<rel_path(i), hardcoded[k][2], hardcoded[k][1]>>]

\* what a run owes the files it could not read: a report and nothing else
UnreadableFilesSkipped ==
  \A i \in Unreadable :
    /\ Entries(issues, i) = <<>>
    /\ Entries(ignored_strings, i) = <<>>
    /\ <<"file", rel_path(i)>> \in Range(errors)

\* C9 as stated: whatever fail_on_issues is, a file that cannot be read is
\* reported and contributes nothing, every other file is analyzed and the
\* missing-key check and the summary run.
C9_ReadFailureNeverFatal ==
  (pc = "done" /\ frontend_exists) =>
    /\ reconciled
    /\ file_idx = Len(tree)
    /\ UnreadableFilesSkipped
    /\ ReadableFilesAnalyzed

\* C9 amended: that holds of find_hardcoded_strings.py, and of validate_i18n.py
\* when fail_on_issues is false (as main passes it); with fail_on_issues true
\* analyze_frontend_strings returns 1 at the first unreadable file, before the
\* later files and the missing-key check.
C9_ReadFailureFatalOnlyWhenFailOnIssues ==
  (pc = "done" /\ frontend_exists) =>
    IF tool = "validate" /\ fail_on_issues /\ Unreadable # {}
      THEN /\ ~reconciled
           /\ ret = 1
           /\ \A i \in Unreadable : file_idx <= i
           /\ file_idx \in Unreadable
           /\ missing_translation_keys = <<>>
      ELSE /\ reconciled
           /\ file_idx = Len(tree)
           /\ UnreadableFilesSkipped
           /\ ReadableFilesAnalyzed

\* C9 witness: a finished run whose first file could not be read and whose
\* second file gave an issue and a key.
C9_Witness ==
  /\ pc = "done"
  /\ reconciled
  /\ Len(tree) = 2
  /\ 1 \in Unreadable
  /\ <<"file", rel_path(1)>> \in Range(errors)
  /\ \/ Entries(issues, 2) # <<>>
     \/ used_keys # {}

\* a locale file that is unreadable or malformed
Broken(lang) ==
  \/ locale_files[lang].kind # "json"
  \/ locale_files[lang].data.type # "dict"

\* C10: a locale file that cannot be loaded gives the empty defined-key set
\* and does not end the run: the other locale's keys are loaded, the source
\* files are analyzed, and every used key is reported missing for the locale.
C10_BrokenLocaleDegrades ==
  \A lang \in Langs :
    Broken(lang) =>
      /\ Defined(lang) = {}
      /\ (pc # "start" /\ frontend_exists) =>
           /\ all_translation_keys[lang] = {}
           /\ \A other \in Langs \ {lang} :
                ~Broken(other) =>
                  /\ all_translation_keys[other] = flatten_keys(locale_files[other].data, <<>>)
                  /\ all_translation_keys[other] # {}
      /\ pc = "done" =>
           \/ reconciled
           \/ ~frontend_exists
           \/ tool = "validate" /\ fail_on_issues /\ Unreadable # {}
      /\ reconciled =>
           /\ file_idx = Len(tree)
           /\ ReadableFilesAnalyzed
           /\ used_keys # {} =>
                /\ lang \in DOMAIN missing_translation_keys
                /\ missing_translation_keys[lang] = used_keys

\* C10 witness: sv.json is malformed, en.json loads, two files were analyzed
\* and both used keys are reported missing for sv only.
C10_Witness ==
  /\ pc = "done"
  /\ reconciled
  /\ locale_files["sv"] = Malformed
  /\ locale_files["en"] = EnJson
  /\ file_idx = 2
  /\ Cardinality(used_keys) = 2
  /\ DOMAIN missing_translation_keys = {"sv"}
  /\ missing_translation_keys["sv"] = used_keys

\* the seq in the order p
Reorder(seq, p) == [k \in 1..Len(seq) |-> seq[p[k]]]

RECURSIVE WalkFindings(_, _, _, _)
\* the findings among `which` of a walk that yields `files`, named `names`, in
\* that order
WalkFindings(files, names, known, which) ==
  IF files = <<>> THEN <<>>
  ELSE FileFindings(Head(names), extract_hardcoded_strings(Head(files).lines), known, which)
         \o WalkFindings(Tail(files), Tail(names), known, which)

\* C11: the issues list, the ignored list and the missing-key report of a
\* finished run are those of a run over the same files in any order in which
\* the file system may enumerate them: same elements, same order.
C11_IndependentOfEnumeration ==
  (pc = "done" /\ reconciled) =>
    \A p \in Orderings(Len(tree)) :
      /\ issues = WalkFindings(Reorder(tree, p), Reorder(paths, p), Known, {"issue"})
      /\ ignored_strings =
           WalkFindings(Reorder(tree, p), Reorder(paths, p), Known, {"ignored", "known"})
      /\ missing_translation_keys =
           validate_translation_keys(
             UNION {extract_translation_calls(Content(Reorder(tree, p)[k].lines)) :
                      k \in 1..Len(tree)},
             locale_files)

\* file i of the walk has been read by the script that runs
WasRead(i) == i \in 1..file_idx /\ tree[i].readable

\* the classifier of the script that runs
UserFacing(text) ==
  IF tool = "validate" THEN is_likely_user_facing_text(text)
                       ELSE FH_is_likely_user_facing_text(text)

\* the quoted literals of one line, of either quote style, in the order of the
\* positions of their opening quotes
OrderedLiterals(line) ==
  LET ms == Range(FindQuoted(line, 1, "'")) \cup Range(FindQuoted(line, 1, "\""))
      opens == SelectSeq([p \in 1..Len(line) |-> p], LAMBDA p : \E m \in ms : m[1] = p)
      closing(p) == (CHOOSE m \in ms : m[1] = p)[2]
  IN  [k \in 1..Len(opens) |->
         Unescape(SubSeq(line, opens[k] + 1, closing(opens[k]) - 1))]

RECURSIVE OrderedFrom(_, _)
\* the (text, line) pairs of the user-facing literals from line num on, top to
\* bottom and, in a line, left to right
OrderedFrom(lines, num) ==
  IF num > Len(lines) THEN <<>>
  ELSE (IF IsSkippedLine(lines[num])
          THEN <<>>
          ELSE LET texts == SelectSeq(OrderedLiterals(lines[num]), UserFacing)
               IN  [k \in 1..Len(texts) |-> <<texts[k], num>>])
         \o OrderedFrom(lines, num + 1)

\* the same as the triples validate_i18n.py extracts
OrderedTriples(lines) ==
  IF CarriesFileMarker(lines) THEN <<>>
  ELSE [k \in 1..Len(OrderedFrom(lines, 1)) |->
          <<OrderedFrom(lines, 1)[k][1], OrderedFrom(lines, 1)[k][2],
            LineIgnored(lines, OrderedFrom(lines, 1)[k][2])>>]

\* C12: the literals of a file are extracted top to bottom and, within one
\* line, in the order of their opening quotes whatever the quote style, with
\* duplicates kept; the findings of the file are recorded in that order.
C12_ExtractionOrder ==
  \A i \in 1..file_idx :
    WasRead(i) =>
      IF tool = "validate"
        THEN /\ extract_hardcoded_strings(LinesOf(i)) = OrderedTriples(LinesOf(i))
             /\ Entries(issues, i) =
                  FileFindings(rel_path(i), OrderedTriples(LinesOf(i)), Known, {"issue"})
             /\ Entries(ignored_strings, i) =
                  FileFindings(rel_path(i), OrderedTriples(LinesOf(i)), Known,
                               {"ignored", "known"})
        ELSE /\ FH_extract_hardcoded_strings(LinesOf(i)) = OrderedFrom(LinesOf(i), 1)
             /\ Entries(issues, i) =
                  [k \in 1..Len(OrderedFrom(LinesOf(i), 1)) |->
                     <<rel_path(i), OrderedFrom(LinesOf(i), 1)[k][2],
                       OrderedFrom(LinesOf(i), 1)[k][1]>>]

\* a line the extractor passes over: its trimmed text starts with an import or
\* export marker or a comment marker, or it holds eslint-disable anywhere
StartsSkipped(line) ==
  \/ \E m \in { <<"i", "m", "p", "o", "r", "t", " ">>, <<"e", "x", "p", "o", "r", "t", " ">>, <<"/", "/">>, <<"/", "*">>, <<"*", "/">>, <<"<", "!", "-", "-">> } :
       StartsWith(Strip(line), m)
  \/ Contains(line, <<"e", "s", "l", "i", "n", "t", "-", "d", "i", "s", "a", "b", "l", "e">>)

\* no finding and no extracted string of file i names line n
NothingOnLine(i, n) ==
  /\ \A e \in Range(issues) : ~(e[1] = rel_path(i) /\ e[2] = n)
  /\ \A e \in Range(ignored_strings) : ~(e[1] = rel_path(i) /\ e[2] = n)
  /\ IF tool = "validate"
       THEN \A e \in Range(extract_hardcoded_strings(LinesOf(i))) : e[2] # n
       ELSE \A e \in Range(FH_extract_hardcoded_strings(LinesOf(i))) : e[2] # n

\* C13: a skipped line yields no literal, whatever quoted text it holds, and
\* parse_ignore_comments still sees the markers on it: an inline marker makes
\* it an ignored line, a file marker sets the whole-file flag, and a block
\* start on it opens the block that a later end marker closes.
C13_SkippedLinesYieldNoLiterals ==
  \A i \in 1..file_idx :
    WasRead(i) =>
      \A n \in 1..Len(LinesOf(i)) :
        StartsSkipped(LinesOf(i)[n]) =>
          LET st == parse_ignore_comments(LinesOf(i))
          IN  /\ NothingOnLine(i, n)
              /\ HasMarker(LinesOf(i)[n]) => n \in st.ignored_lines
              /\ HasFileMarker(LinesOf(i)[n]) => st.ignore_entire_file
              /\ \A e \in (n + 1)..Len(LinesOf(i)) :
                   ( /\ Contains(LinesOf(i)[n], <<"/", "*", " ", "i", "1", "8", "n", "-", "i", "g", "n", "o", "r", "e", "-", "b", "l", "o", "c", "k", " ", "*", "/">>)
                     /\ Contains(LinesOf(i)[e], <<"/", "*", " ", "i", "1", "8", "n", "-", "i", "g", "n", "o", "r", "e", "-", "b", "l", "o", "c", "k", "-", "e", "n", "d", " ", "*", "/">>)
                     /\ ~ContainsAny(LinesOf(i)[e], BlockStartMarkers)
                     /\ \A m \in (n + 1)..(e - 1) : ~HasMarker(LinesOf(i)[m]) )
                   => /\ <<n, e>> \in st.ignored_blocks
                      /\ tool = "validate" =>
                           \A x \in Range(issues) : ~(x[1] = rel_path(i) /\ x[2] = e)

\* C13 witness: a skipped line with user-facing quoted text and a block-start
\* marker, and the literal of the line that closes the block in the ignored list.
C13_Witness ==
  /\ tool = "validate"
  /\ WasRead(1)
  /\ Len(LinesOf(1)) = 2
  /\ StartsSkipped(LinesOf(1)[1])
  /\ Contains(LinesOf(1)[1], <<"/", "*", " ", "i", "1", "8", "n", "-", "i", "g", "n", "o", "r", "e", "-", "b", "l", "o", "c", "k", " ", "*", "/">>)
  /\ \E t \in Range(LineLiterals(LinesOf(1)[1])) : UserFacing(t)
  /\ issues = <<>>
  /\ \E x \in Range(ignored_strings) : x[2] = 2

\* a character an identifier may hold
IsIdentifierChar(c) == IsWord(c) \/ c = "$"

\* the keys of the invocations of t in a text: t, not the tail of a longer
\* name, applied to one quoted literal
LookupKeys(content) ==
  { SubSeq(content, p + 3, KeyRunEnd(content, p + 3)) :
      p \in {q \in 1..Len(content) :
               /\ CallAt(content, q)
               /\ q = 1 \/ ~IsIdentifierChar(content[q - 1])} }

\* C14: the keys collected from the files read are exactly the inner texts of
\* the invocations of t on one quoted literal: t('errors.notFound') gives
\* errors.notFound, and a quoted argument of a function whose name only ends
\* in t gives no key.
C14_KeyReferenceCollector ==
  /\ used_keys = UNION {LookupKeys(Content(LinesOf(i))) : i \in {k \in 1..file_idx : WasRead(k)}}
  /\ \A i \in 1..file_idx :
       (WasRead(i) /\ Contains(Content(LinesOf(i)), LineCallNotFound))
         => <<"e", "r", "r", "o", "r", "s", ".", "n", "o", "t", "F", "o", "u", "n", "d">> \in used_keys


\* the lines of the parsed file that carry a block-start marker, and those
\* that carry a block-end marker
BlockStartLines == {n \in 1..Len(p_lines) : HasBlockStartMarker(p_lines[n])}
BlockEndLines == {n \in 1..Len(p_lines) : HasBlockEndMarker(p_lines[n])}

\* the pairs (s, e) where e is a block-end line, s the most recent block-start
\* line before it, and no block-end line lies strictly between them
LastStartWins ==
  { r \in (1..Len(p_lines)) \X (1..Len(p_lines)) :
      /\ r[1] < r[2]
      /\ r[1] \in BlockStartLines
      /\ r[2] \in BlockEndLines
      /\ \A m \in (r[1] + 1)..(r[2] - 1) : m \notin BlockStartLines \cup BlockEndLines }

\* C15: after parse_ignore_comments has processed the lines of a file,
\* ignored_blocks is exactly the set of pairs (s, e) where e is a block-end
\* line, s is the most recent block-start line before e and no block-end line
\* lies strictly between; every recorded range has start <= end, and no two
\* recorded ranges overlap.
C15_BlockStateMachine ==
  p_pc = "done" =>
    /\ ignored_blocks = LastStartWins
    /\ \A r \in ignored_blocks : r[1] <= r[2]
    /\ \A r, q \in ignored_blocks : r # q => (r[2] < q[1] \/ q[2] < r[1])

\* C16: is_likely_user_facing_text returns a boolean and never raises, in
\* either script, whatever the text: the empty text, a text of whitespace and a
\* text of one or two characters included. The first character, text[0], is
\* read only for a text of three or more characters.
C16_ClassifierTotality ==
  /\ verdict # "IndexError"
  /\ verdict \notin {"idle", "none"} => verdict \in {"UserFacing", "Technical"}
  /\ first_char_read => Len(c_text) >= 3

\* C16 witness: a classified text shorter than three characters whose first
\* character the exclusion test alone keeps from being read.
C16_Witness ==
  /\ verdict = "Technical"
  /\ Len(c_text) < 3
  /\ ReadsFirstChar(c_text)
  /\ ~first_char_read
=============================================================================
